---- MODULE Spec2Model ----
(***************************************************************************)
(* Hybrid search service (scripts/_phase4): the /search request handler,   *)
(* the candidate merger, ranker v1 and the feedback store.                 *)
(*                                                                         *)
(* Numbers.  Python floats are modelled in fixed point.  Raw retrieval     *)
(* scores are integers counted in units of 0.5e-9, so the ranker's         *)
(* threshold 1e-9 is EPS = 2 units.  Normalised features and recency are   *)
(* integers counted in 1/SCALE (SCALE stands for 1.0); the weights are     *)
(* counted in hundredths, so a score is counted in 1/(100*SCALE).          *)
(***************************************************************************)
EXTENDS Integers, Sequences, FiniteSets, TLC

VARIABLES
    pc,          \* request -> position of its handler thread
    req,         \* request -> the SearchRequest it carries
    loc,         \* request -> the handler's local variables
    query_log,   \* rows of table query_log, in insertion order
    candidate_log, \* rows of table candidate_log, in insertion order
    next_id,     \* BIGSERIAL sequence of query_log.id
    encoding,    \* requests currently inside model.encode
    resp,        \* request -> the HTTP outcome sent to the client (status 0: none yet)
    labels,      \* rows of table labels, in insertion order
    phase,       \* position of the merger / ranker harness
    lex_hits,    \* merger input: lexical hits
    sem_art,     \* merger input: article-vector hits
    sem_chk,     \* merger input: chunk-vector hits
    candidates,  \* merger output / ranker input
    q_tokens,    \* ranker input: query tokens
    ranked,      \* ranker output
    raw,         \* query harness input: the raw query, a string of characters
    filter_by,   \* query harness input: the client's filter_by (Optional[str])
    gazetteer,   \* query harness input: the gazetteer loaded at startup
    result,      \* query harness output
    paragraphs,  \* chunker input: the paragraphs of one article
    chunk_args,  \* chunker input: max_tokens, overlap_tokens, hard_max_tokens
    chunks       \* chunker output

vars == <<pc, req, loc, query_log, candidate_log, next_id, encoding, resp, labels,
          phase, lex_hits, sem_art, sem_chk, candidates, q_tokens, ranked,
          raw, filter_by, gazetteer, result, paragraphs, chunk_args, chunks>>

serverVars == <<pc, req, loc, query_log, candidate_log, next_id, encoding, resp, labels>>
pureVars == <<phase, lex_hits, sem_art, sem_chk, candidates, q_tokens, ranked>>
queryVars == <<raw, filter_by, gazetteer, result>>
chunkVars == <<paragraphs, chunk_args, chunks>>
offlineVars == <<pureVars, queryVars, chunkVars>>

-----------------------------------------------------------------------------
(* Bounds *)

MaxArticles == 3     \* article ids are 1..MaxArticles
MaxHits == 3         \* hits of one /search over its three fan-outs
MaxCands == 2        \* longest candidate list given to the ranker alone
MaxRaw == 3          \* largest raw retrieval score, in raw units
MaxReqs == 2         \* /search requests served by the process

(* Program constants *)

CANDIDATE_CAP == 2        \* env CANDIDATE_CAP (default 200), run at 2
LOG_CANDIDATES_TOPN == 2  \* env LOG_CANDIDATES_TOPN (default 200), run at 2
EPS == 2                  \* 1e-9 in raw units of 0.5e-9
RECENCY_DAYS == 1095
DAY == 86400

W_LEX == 100
W_SC == 40
W_SA == 18
W_TAG == 12
W_CAT == 10
W_LOC == 15
W_CONTRIB == 6
W_REC == 8

SCALE == 2 * RECENCY_DAYS
NOW_TS == 2000 * DAY

None == "None"

Max(a, b) == IF a >= b THEN a ELSE b
Min(a, b) == IF a <= b THEN a ELSE b
Range(s) == {s[i] : i \in DOMAIN s}
Get(r, k, default) == IF k \in DOMAIN r THEN r[k] ELSE default

Articles == 1..MaxArticles

-----------------------------------------------------------------------------
(* list.sort(key=..., reverse=True): a stable sort by descending key.  The *)
(* element at input index k lands after every element with a larger key    *)
(* and after every earlier element with an equal key.                      *)

(* a sort that puts the later of two equal keys first *)
SortPos_later_first(keys, k) ==
    1 + Cardinality({j \in DOMAIN keys :
                        keys[j] > keys[k] \/ (keys[j] = keys[k] /\ j > k)})

SortPos(keys, k) ==
    1 + Cardinality({j \in DOMAIN keys :
                        keys[j] > keys[k] \/ (keys[j] = keys[k] /\ j < k)})

SortPermDesc(keys) ==
    [i \in 1..Len(keys) |-> CHOOSE k \in 1..Len(keys) : SortPos(keys, k) = i]

Take(s, n) == IF n <= 0 THEN <<>> ELSE SubSeq(s, 1, Min(n, Len(s)))

(* Python slice s[:n] for any integer n (a negative n counts from the end) *)
SliceTo(s, n) == IF n >= 0 THEN Take(s, n) ELSE Take(s, Len(s) + n)

-----------------------------------------------------------------------------
(* articles_meta: the in-memory article table loaded at startup.  Article  *)
(* 1 was published now and carries every metadata token, article 2 was     *)
(* published 30 days ago, article 3 1200 days ago; any other id is absent  *)
(* from the table.                                                         *)

NoChunk == 0

articles_meta ==
    [aid \in {1, 2, 3} |->
        CASE aid = 1 -> [id |-> 1, title |-> "t1", published_ts |-> NOW_TS,
                         categories_norm |-> <<"health", "bihar">>,
                         tags_norm |-> <<"health", "bihar">>,
                         locations_norm |-> <<"bihar">>,
                         contributors_norm |-> <<"asha">>]
          [] aid = 2 -> [id |-> 2, title |-> "t2", published_ts |-> NOW_TS - 30 * DAY,
                         categories_norm |-> <<>>,
                         tags_norm |-> <<"health">>,
                         locations_norm |-> <<>>,
                         contributors_norm |-> <<>>]
          [] OTHER   -> [id |-> 3, title |-> "t3", published_ts |-> NOW_TS - 1200 * DAY,
                         categories_norm |-> <<>>,
                         tags_norm |-> <<>>,
                         locations_norm |-> <<>>,
                         contributors_norm |-> <<>>]]

(* articles_meta.get(aid, {}) *)
MetaOf(aid) == IF aid \in DOMAIN articles_meta THEN articles_meta[aid] ELSE <<>>

(* chunk_text_map: chunk id -> chunk text; chunk 10*a + i belongs to a *)
ChunkOf(aid, i) == 10 * aid + i
chunk_text_map == [cid \in {ChunkOf(a, i) : a \in {1, 2, 3}, i \in {1, 2}} |-> cid]

-----------------------------------------------------------------------------
(* build_candidates.  A dict is a function on its keys; cand keeps the     *)
(* keys of the outer dict in insertion order.                              *)

Put(d, k, v) == (k :> v) @@ d

SetDefault(cand, aid) ==
    IF aid \in DOMAIN cand.m THEN cand
    ELSE [order |-> Append(cand.order, aid), m |-> Put(cand.m, aid, <<>>)]

RECURSIVE MergeLexical(_, _)
MergeLexical(cand, hits) ==
    IF hits = <<>> THEN cand
    ELSE LET x == Head(hits)
             aid == x.article_id
             cd == SetDefault(cand, aid)
             c == cd.m[aid]
             c1 == Put(c, "lexical_score",
                       Max(Get(c, "lexical_score", 0), Get(x, "lexical_score", 0)))
             c2 == Put(c1, "src_lexical", TRUE)
         IN MergeLexical([cd EXCEPT !.m = Put(cd.m, aid, c2)], Tail(hits))

RECURSIVE MergeSemArticles(_, _)
MergeSemArticles(cand, hits) ==
    IF hits = <<>> THEN cand
    ELSE LET aid == Head(hits)[1]
             s == Head(hits)[2]
             cd == SetDefault(cand, aid)
             c == cd.m[aid]
             c1 == Put(c, "sem_article", Max(Get(c, "sem_article", 0), s))
             c2 == Put(c1, "src_sem_article", TRUE)
         IN MergeSemArticles([cd EXCEPT !.m = Put(cd.m, aid, c2)], Tail(hits))

RECURSIVE MergeSemChunks(_, _)
MergeSemChunks(cand, hits) ==
    IF hits = <<>> THEN cand
    ELSE LET cid == Head(hits)[1]
             aid == Head(hits)[2]
             s == Head(hits)[3]
             cd == SetDefault(cand, aid)
             c == cd.m[aid]
             best == Get(c, "sem_chunk", 0)
             c1 == IF s > best
                   THEN Put(Put(c, "sem_chunk", s), "best_chunk_id", cid)
                   ELSE c
             c2 == Put(c1, "src_sem_chunk", TRUE)
         IN MergeSemChunks([cd EXCEPT !.m = Put(cd.m, aid, c2)], Tail(hits))

(* the entry appended to out for one key of cand *)
CandidateOut(aid, c) ==
    LET m == MetaOf(aid)
    IN [article_id |-> aid,
        title |-> Get(m, "title", None),
        published_ts |-> Get(m, "published_ts", 0),
        categories_norm |-> Get(m, "categories_norm", <<>>),
        tags_norm |-> Get(m, "tags_norm", <<>>),
        locations_norm |-> Get(m, "locations_norm", <<>>),
        contributors_norm |-> Get(m, "contributors_norm", <<>>),
        lexical_score |-> Get(c, "lexical_score", 0),
        sem_article |-> Get(c, "sem_article", 0),
        sem_chunk |-> Get(c, "sem_chunk", 0),
        best_chunk_id |-> Get(c, "best_chunk_id", NoChunk)]

RawSum(z) == z.lexical_score + z.sem_chunk + z.sem_article

SortByRawSum(out) ==
    LET perm == SortPermDesc([i \in DOMAIN out |-> RawSum(out[i])])
    IN [i \in DOMAIN out |-> out[perm[i]]]

(* the three loops run chunk hits first *)
MergedDict_chunks_first(lex, sa, sc) ==
    MergeLexical(MergeSemArticles(MergeSemChunks([order |-> <<>>, m |-> <<>>], sc), sa), lex)

(* the dict after the three loops *)
MergedDict(lex, sa, sc) ==
    MergeSemChunks(MergeSemArticles(MergeLexical([order |-> <<>>, m |-> <<>>], lex), sa), sc)

(* build_candidates with the cap applied before the pre-sort *)
build_candidates_cap_first(lex, sa, sc) ==
    LET cand == MergedDict(lex, sa, sc)
        out == [i \in DOMAIN cand.order |->
                   CandidateOut(cand.order[i], cand.m[cand.order[i]])]
    IN SortByRawSum(SliceTo(out, CANDIDATE_CAP))

build_candidates(lex, sa, sc) ==
    LET cand == MergedDict(lex, sa, sc)
        out == [i \in DOMAIN cand.order |->
                   CandidateOut(cand.order[i], cand.m[cand.order[i]])]
    IN SliceTo(SortByRawSum(out), CANDIDATE_CAP)

-----------------------------------------------------------------------------
(* ranker_v1 *)

SeqMin(values) == CHOOSE v \in Range(values) : \A w \in Range(values) : v <= w
SeqMax(values) == CHOOSE v \in Range(values) : \A w \in Range(values) : v >= w

(* minmax_norm that treats only an exactly constant list as degenerate *)
minmax_norm_exact(values) ==
    IF values = <<>> THEN <<>>
    ELSE IF SeqMax(values) = SeqMin(values)
         THEN [i \in DOMAIN values |-> 0]
         ELSE [i \in DOMAIN values |->
                  ((values[i] - SeqMin(values)) * SCALE)
                      \div (SeqMax(values) - SeqMin(values))]

minmax_norm(values) ==
    IF values = <<>> THEN <<>>
    ELSE LET lo == SeqMin(values)
             hi == SeqMax(values)
         IN IF hi - lo < EPS
            THEN [i \in DOMAIN values |-> 0]
            ELSE [i \in DOMAIN values |-> ((values[i] - lo) * SCALE) \div (hi - lo)]

safe_overlap_count(query_tokens, field_tokens) ==
    IF query_tokens = <<>> \/ field_tokens = <<>> THEN 0
    ELSE LET qs == {t \in Range(query_tokens) : t # ""}
             fs == {t \in Range(field_tokens) : t # ""}
         IN Cardinality(qs \cap fs)

(* seconds of age that lower the recency by 1/SCALE *)
RecUnit == (DAY * RECENCY_DAYS) \div SCALE

(* recency_score without the lower clamp *)
recency_score_unclamped(published_ts, now_ts) ==
    IF published_ts <= 0 \/ now_ts <= 0 THEN 0
    ELSE SCALE - (Max(0, now_ts - published_ts) \div RecUnit)

recency_score(published_ts, now_ts) ==
    IF published_ts <= 0 \/ now_ts <= 0 THEN 0
    ELSE LET age == Max(0, now_ts - published_ts)
         IN Max(0, SCALE - (age \div RecUnit))

PartNames ==
    <<"lex", "sem_chunk", "sem_article", "tag_overlap", "cat_overlap",
      "loc_overlap", "contrib_overlap", "recency">>

(* score_parts with the recency part weighted 0 *)
ScoreParts_recency_unweighted(c, lex_n_i, sa_n_i, sc_n_i, query_tokens, now_ts) ==
    <<W_LEX * lex_n_i, W_SC * sc_n_i, W_SA * sa_n_i,
      W_TAG * Min(SCALE, (safe_overlap_count(query_tokens, c.tags_norm) * SCALE) \div 2),
      W_CAT * Min(SCALE, (safe_overlap_count(query_tokens, c.categories_norm) * SCALE) \div 2),
      W_LOC * Min(SCALE, safe_overlap_count(query_tokens, c.locations_norm) * SCALE),
      W_CONTRIB * Min(SCALE, safe_overlap_count(query_tokens, c.contributors_norm) * SCALE),
      0 * recency_score(c.published_ts, now_ts)>>

(* score_parts of candidate i, in the dict's insertion order (PartNames) *)
ScoreParts(c, lex_n_i, sa_n_i, sc_n_i, query_tokens, now_ts) ==
    LET tag_ov == safe_overlap_count(query_tokens, c.tags_norm)
        cat_ov == safe_overlap_count(query_tokens, c.categories_norm)
        loc_ov == safe_overlap_count(query_tokens, c.locations_norm)
        con_ov == safe_overlap_count(query_tokens, c.contributors_norm)
        tag_feat == Min(SCALE, (tag_ov * SCALE) \div 2)
        cat_feat == Min(SCALE, (cat_ov * SCALE) \div 2)
        loc_feat == Min(SCALE, loc_ov * SCALE)
        con_feat == Min(SCALE, con_ov * SCALE)
        rec == recency_score(c.published_ts, now_ts)
    IN <<W_LEX * lex_n_i, W_SC * sc_n_i, W_SA * sa_n_i, W_TAG * tag_feat,
         W_CAT * cat_feat, W_LOC * loc_feat, W_CONTRIB * con_feat, W_REC * rec>>

RECURSIVE SumSeq(_)
SumSeq(s) == IF s = <<>> THEN 0 ELSE Head(s) + SumSeq(Tail(s))

(* the dict appended to out for candidate i, before ranks are assigned *)
Scored(c, lex_n_i, sa_n_i, sc_n_i, query_tokens, now_ts) ==
    LET parts == ScoreParts(c, lex_n_i, sa_n_i, sc_n_i, query_tokens, now_ts)
        perm == SortPermDesc(parts)
        features ==
            [lexical_score_raw |-> c.lexical_score,
             sem_article_raw |-> c.sem_article,
             sem_chunk_raw |-> c.sem_chunk,
             lex_norm |-> lex_n_i,
             sem_article_norm |-> sa_n_i,
             sem_chunk_norm |-> sc_n_i,
             tag_overlap_count |-> safe_overlap_count(query_tokens, c.tags_norm),
             cat_overlap_count |-> safe_overlap_count(query_tokens, c.categories_norm),
             loc_overlap_count |-> safe_overlap_count(query_tokens, c.locations_norm),
             contrib_overlap_count |-> safe_overlap_count(query_tokens, c.contributors_norm),
             recency |-> recency_score(c.published_ts, now_ts),
             best_chunk_id |-> Get(c, "best_chunk_id", NoChunk),
             src_lexical |-> Get(c, "src_lexical", FALSE),
             src_sem_article |-> Get(c, "src_sem_article", FALSE),
             src_sem_chunk |-> Get(c, "src_sem_chunk", FALSE)]
    IN Put(Put(Put(c, "score", SumSeq(parts)), "features", features),
           "explanation", [k \in 1..4 |-> <<PartNames[perm[k]], parts[perm[k]]>>])

(* the sort without reverse=True *)
SortByScore_ascending(out) ==
    LET perm == SortPermDesc([i \in DOMAIN out |-> 0 - out[i].score])
    IN [i \in DOMAIN out |-> out[perm[i]]]

SortByScore(out) ==
    LET perm == SortPermDesc([i \in DOMAIN out |-> out[i].score])
    IN [i \in DOMAIN out |-> out[perm[i]]]

AssignRanks(out) == [r \in DOMAIN out |-> Put(out[r], "rank", r)]

ranker_v1(cands, query_tokens, now_ts) ==
    LET lex_n == minmax_norm([i \in DOMAIN cands |-> cands[i].lexical_score])
        sa_n == minmax_norm([i \in DOMAIN cands |-> cands[i].sem_article])
        sc_n == minmax_norm([i \in DOMAIN cands |-> cands[i].sem_chunk])
        out == [i \in DOMAIN cands |->
                   Scored(cands[i], lex_n[i], sa_n[i], sc_n[i], query_tokens, now_ts)]
    IN AssignRanks(SortByScore(out))

-----------------------------------------------------------------------------
(* The server's state after module import (lines 141-146): no request, an  *)
(* empty store.                                                            *)

Reqs == 1..MaxReqs

ServerInit ==
    /\ pc = [r \in Reqs |-> "idle"]
    /\ req = [r \in Reqs |-> <<>>]
    /\ loc = [r \in Reqs |-> <<>>]
    /\ query_log = <<>>
    /\ candidate_log = <<>>
    /\ next_id = 1
    /\ encoding = {}
    /\ resp = [r \in Reqs |-> [status |-> 0]]
    /\ labels = <<>>

(* the harnesses of the query functions and of the chunker are not in use *)
QueryIdle ==
    /\ raw = <<>>
    /\ filter_by = <<>>
    /\ gazetteer = <<>>
    /\ result = <<>>

ChunkIdle ==
    /\ paragraphs = <<>>
    /\ chunk_args = <<>>
    /\ chunks = <<>>

PureIdle ==
    /\ phase = "off"
    /\ lex_hits = <<>>
    /\ sem_art = <<>>
    /\ sem_chk = <<>>
    /\ candidates = <<>>
    /\ q_tokens = <<>>
    /\ ranked = <<>>

-----------------------------------------------------------------------------
(* The merger on its own: build_candidates applied to every triple of      *)
(* fan-out results with at most MaxHits hits in total, and the ranker      *)
(* applied to what it returns.                                             *)

LexScores == {1, MaxRaw}
SemScores == {-1, MaxRaw}

LexHitSet == [article_id : Articles, lexical_score : LexScores]
SemArtHitSet == Articles \X SemScores
SemChkHitSet == {<<ChunkOf(a, i), a, s>> : a \in Articles, i \in {1, 2}, s \in SemScores}

InitMerge ==
    /\ ServerInit
    /\ QueryIdle
    /\ ChunkIdle
    /\ phase = "input"
    /\ \E i \in 0..MaxHits, j \in 0..MaxHits, k \in 0..MaxHits :
          /\ i + j + k <= MaxHits
          /\ lex_hits \in [1..i -> LexHitSet]
          /\ sem_art \in [1..j -> SemArtHitSet]
          /\ sem_chk \in [1..k -> SemChkHitSet]
    /\ candidates = <<>>
    /\ q_tokens = <<>>
    /\ ranked = <<>>

Merge ==
    /\ phase = "input"
    /\ candidates' = build_candidates(lex_hits, sem_art, sem_chk)
    /\ phase' = "merged"
    /\ UNCHANGED <<lex_hits, sem_art, sem_chk, q_tokens, ranked>>
    /\ UNCHANGED <<serverVars, queryVars, chunkVars>>

(* search() hands the merged list to the ranker *)
RankMerged ==
    /\ phase = "merged"
    /\ ranked' = ranker_v1(candidates, q_tokens, NOW_TS)
    /\ phase' = "ranked"
    /\ UNCHANGED <<lex_hits, sem_art, sem_chk, candidates, q_tokens>>
    /\ UNCHANGED <<serverVars, queryVars, chunkVars>>

NextMerge == Merge \/ RankMerged

SpecMerge == InitMerge /\ [][NextMerge]_vars

-----------------------------------------------------------------------------
(* The ranker on its own: ranker_v1 applied to every candidate list of at  *)
(* most MaxCands entries (any raw signals, negative ones included).         *)

RankLexScores == {0, 1, MaxRaw}
RankSemScores == {-1, MaxRaw - 1}
TokenLists == {<<>>, <<"bihar", "health", "asha">>}

RankCandSet ==
    {Put(Put(Put(CandidateOut(a, <<>>), "lexical_score", l), "sem_chunk", c),
         "sem_article", s) :
        a \in Articles, l \in RankLexScores, c \in RankSemScores, s \in RankSemScores}

InitRank ==
    /\ ServerInit
    /\ QueryIdle
    /\ ChunkIdle
    /\ phase = "input"
    /\ lex_hits = <<>>
    /\ sem_art = <<>>
    /\ sem_chk = <<>>
    /\ \E n \in 0..MaxCands : candidates \in [1..n -> RankCandSet]
    /\ q_tokens \in TokenLists
    /\ ranked = <<>>

Rank ==
    /\ phase = "input"
    /\ ranked' = ranker_v1(candidates, q_tokens, NOW_TS)
    /\ phase' = "ranked"
    /\ UNCHANGED <<lex_hits, sem_art, sem_chk, candidates, q_tokens>>
    /\ UNCHANGED <<serverVars, queryVars, chunkVars>>

NextRank == Rank

SpecRank == InitRank /\ [][NextRank]_vars

-----------------------------------------------------------------------------
(* The /search handler (search, hybrid_search_api.py 327-422).  FastAPI    *)
(* runs a plain def endpoint on a worker thread per request, so handlers   *)
(* of different requests interleave at their blocking calls.  A handler    *)
(* stops at each call that leaves the process (Typesense, Qdrant, the      *)
(* database) and inside model.encode; the code between two stops is one    *)
(* step.  loc[r] holds the handler's local variables once assigned, plus   *)
(* "issue" (call -> the calls that had returned when it was issued).  When *)
(* the handler exits its frame is gone: loc[r] keeps only how it ended,    *)
(* "failed" (the call that raised) or "logged".  Rows carry "by", the      *)
(* request that wrote them.                                                *)

Queries == {"", " ", "asha"}
PerPages == {-1, 0, 10}

LexResults == {<<>>, <<[article_id |-> 1, lexical_score |-> MaxRaw]>>}
SemArtResults == {<<>>, <<<<2, MaxRaw>>>>}
SemChkResults == {<<>>, <<<<ChunkOf(1, 1), 1, MaxRaw>>>>}

(* tokenize_query on the queries of the model, which are empty or one      *)
(* lower-case word of two letters or more                                  *)
tokenize_query(q) == IF q = "" THEN <<>> ELSE <<q>>

(* str.strip on the queries of the model *)
strip(q) == IF q = " " THEN "" ELSE q

(* the calls of this request that have returned *)
Returned(l) == {c \in {"lex", "sem_a", "sem_c"} : c \in DOMAIN l}

(* an exception leaves the handler: FastAPI answers 500 *)
Raise(r, what) ==
    /\ loc' = [loc EXCEPT ![r] = [failed |-> what]]
    /\ resp' = [resp EXCEPT ![r] = [status |-> 500]]
    /\ pc' = [pc EXCEPT ![r] = "done"]

(* the handler without the check of lines 329-330 *)
Receive_unchecked(r) ==
    /\ pc[r] = "idle"
    /\ \E q \in Queries, pp \in PerPages :
          /\ req' = [req EXCEPT ![r] = [query |-> q, per_page |-> pp]]
          /\ pc' = [pc EXCEPT ![r] = "lex"]
          /\ loc' = [loc EXCEPT ![r] = Put(@, "issue", "lex" :> Returned(@))]
          /\ resp' = resp
    /\ UNCHANGED <<query_log, candidate_log, next_id, encoding>>

(* lines 329-346: reject an empty query, else canonicalize, detect         *)
(* entities and send the lexical query.  The non-empty query of the model  *)
(* is its own canonical form and matches no gazetteer entry.               *)
Receive(r) ==
    /\ pc[r] = "idle"
    /\ \E q \in Queries, pp \in PerPages :
          /\ req' = [req EXCEPT ![r] = [query |-> q, per_page |-> pp]]
          /\ IF q = "" \/ strip(q) = ""
             THEN /\ resp' = [resp EXCEPT ![r] = [status |-> 400]]
                  /\ pc' = [pc EXCEPT ![r] = "done"]
                  /\ loc' = loc
             ELSE /\ pc' = [pc EXCEPT ![r] = "lex"]
                  /\ loc' = [loc EXCEPT ![r] = Put(@, "issue", "lex" :> Returned(@))]
                  /\ resp' = resp
    /\ UNCHANGED <<query_log, candidate_log, next_id, encoding>>

(* line 346 returns; line 348 enters qdrant_search_articles, whose first   *)
(* statement is model.encode (line 230)                                    *)
LexReturn(r) ==
    /\ pc[r] = "lex"
    /\ \E res \in LexResults :
          LET l == Put(loc[r], "lex", res)
          IN loc' = [loc EXCEPT ![r] = Put(l, "issue", ("sem_a" :> Returned(l)) @@ l.issue)]
    /\ pc' = [pc EXCEPT ![r] = "encode_a"]
    /\ encoding' = encoding \cup {r}
    /\ UNCHANGED <<req, query_log, candidate_log, next_id, resp>>

(* typesense_search raises (line 215) *)
LexFail(r) ==
    /\ pc[r] = "lex"
    /\ Raise(r, "lex")
    /\ UNCHANGED <<req, query_log, candidate_log, next_id, encoding>>

(* model.encode returns and qd.search is sent (lines 230-231) *)
EncodeArticlesDone(r) ==
    /\ pc[r] = "encode_a"
    /\ encoding' = encoding \ {r}
    /\ pc' = [pc EXCEPT ![r] = "sem_a"]
    /\ UNCHANGED <<req, loc, query_log, candidate_log, next_id, resp>>

(* line 348 returns; line 349 enters qdrant_search_chunks (line 236) *)
SemArticlesReturn(r) ==
    /\ pc[r] = "sem_a"
    /\ \E res \in SemArtResults :
          LET l == Put(loc[r], "sem_a", res)
          IN loc' = [loc EXCEPT ![r] = Put(l, "issue", ("sem_c" :> Returned(l)) @@ l.issue)]
    /\ pc' = [pc EXCEPT ![r] = "encode_c"]
    /\ encoding' = encoding \cup {r}
    /\ UNCHANGED <<req, query_log, candidate_log, next_id, resp>>

(* qd.search raises (line 231) *)
SemArticlesFail(r) ==
    /\ pc[r] = "sem_a"
    /\ Raise(r, "sem_a")
    /\ UNCHANGED <<req, query_log, candidate_log, next_id, encoding>>

(* model.encode returns and qd.search is sent (lines 236-237) *)
EncodeChunksDone(r) ==
    /\ pc[r] = "encode_c"
    /\ encoding' = encoding \ {r}
    /\ pc' = [pc EXCEPT ![r] = "sem_c"]
    /\ UNCHANGED <<req, loc, query_log, candidate_log, next_id, resp>>

(* SearchHit (lines 156-176) declares rank, id and score without default;  *)
(* the call at lines 360-375 passes these keywords.  pydantic ignores an   *)
(* unknown keyword and raises ValidationError for a missing required field *)
SearchHitRequired == {"rank", "id", "score"}
SearchHitKeywords ==
    {"rank", "article_id", "title", "url", "primary_category", "categories",
     "tags", "location", "partner_label", "contributors", "score", "snippet",
     "features", "explanation"}
SearchHitValid == SearchHitRequired \subseteq SearchHitKeywords

(* choose_snippet: the flattened text of best_chunk_id, cut at 420 chars;  *)
(* a chunk text is modelled by its chunk id                                *)
choose_snippet(item) ==
    LET cid == Get(item, "best_chunk_id", NoChunk)
    IN IF cid = NoChunk THEN NoChunk
       ELSE IF cid \notin DOMAIN chunk_text_map THEN NoChunk
       ELSE chunk_text_map[cid]

(* the page of ranked items turned into hits (line 358) *)
PageOf(rk, per_page) == SliceTo(rk, Max(1, per_page))

(* the keyword arguments of one SearchHit *)
HitOf(item) ==
    [rank |-> item.rank, article_id |-> item.article_id, title |-> item.title,
     score |-> item.score, snippet |-> choose_snippet(item)]

(* lines 351-376 with the chunk hits res: merge, rank and build the hits;  *)
(* line 378 sends the INSERT into query_log                                *)
AfterChunks(r, res) ==
    LET cands == build_candidates(loc[r].lex, loc[r].sem_a, res)
        rk == ranker_v1(cands, tokenize_query(req[r].query), NOW_TS)
        page == PageOf(rk, req[r].per_page)
        l == Put(Put(Put(loc[r], "sem_c", res), "candidates", cands), "ranked", rk)
    IN IF page # <<>> /\ ~SearchHitValid
       THEN /\ loc' = [loc EXCEPT ![r] = [failed |-> "hits"]]
            /\ resp' = [resp EXCEPT ![r] = [status |-> 500]]
            /\ pc' = [pc EXCEPT ![r] = "done"]
       ELSE /\ loc' = [loc EXCEPT ![r] =
                          Put(l, "hits", [i \in DOMAIN page |-> HitOf(page[i])])]
            /\ resp' = resp
            /\ pc' = [pc EXCEPT ![r] = "insert_query"]

(* line 349 returns *)
SemChunksReturn(r) ==
    /\ pc[r] = "sem_c"
    /\ \E res \in SemChkResults : AfterChunks(r, res)
    /\ UNCHANGED <<req, query_log, candidate_log, next_id, encoding>>

(* the chunk search wrapped in try/except that goes on with no chunk hits *)
SemChunksFail_swallowed(r) ==
    /\ pc[r] = "sem_c"
    /\ LET cands == build_candidates(loc[r].lex, loc[r].sem_a, <<>>)
           rk == ranker_v1(cands, tokenize_query(req[r].query), NOW_TS)
           page == PageOf(rk, req[r].per_page)
           l == Put(Put(Put(loc[r], "sem_c", <<>>), "candidates", cands), "ranked", rk)
       IN IF page # <<>> /\ ~SearchHitValid
          THEN Raise(r, "hits")
          ELSE /\ loc' = [loc EXCEPT ![r] = Put(Put(l, "hits", <<>>), "failed", "sem_c")]
               /\ resp' = resp
               /\ pc' = [pc EXCEPT ![r] = "insert_query"]
    /\ UNCHANGED <<req, query_log, candidate_log, next_id, encoding>>

(* qd.search raises (line 237) *)
SemChunksFail(r) ==
    /\ pc[r] = "sem_c"
    /\ Raise(r, "sem_c")
    /\ UNCHANGED <<req, query_log, candidate_log, next_id, encoding>>

(* the rows of ranked that are logged (lines 400-419) *)
ToLog(rk) == SliceTo(rk, Min(LOG_CANDIDATES_TOPN, Len(rk)))

(* insert_query commits its own transaction and returns the new id (db.py  *)
(* 118-120); lines 400-420 build to_log and open insert_candidates         *)
InsertQueryOk(r) ==
    /\ pc[r] = "insert_query"
    /\ query_log' = Append(query_log,
                           [id |-> next_id, by |-> r, query_raw |-> req[r].query,
                            cand_n |-> Len(loc[r].candidates)])
    /\ next_id' = next_id + 1
    /\ loc' = [loc EXCEPT ![r] = Put(Put(@, "qid", next_id), "to_log", ToLog(@.ranked))]
    /\ pc' = [pc EXCEPT ![r] = "insert_candidates"]
    /\ UNCHANGED <<req, candidate_log, encoding, resp>>

(* insert_query raises: its transaction rolls back (db.py 118) *)
InsertQueryFail(r) ==
    /\ pc[r] = "insert_query"
    /\ Raise(r, "insert_query")
    /\ UNCHANGED <<req, query_log, candidate_log, next_id, encoding>>

(* the rows insert_candidates writes for one request (db.py 141-162) *)
CandidateRows(r, qid, to_log) ==
    [i \in DOMAIN to_log |->
        [query_id |-> qid, by |-> r, rank |-> to_log[i].rank,
         article_id |-> to_log[i].article_id, score |-> to_log[i].score]]

(* insert_candidates commits all rows in one transaction (db.py 140-162);  *)
(* line 422 returns the response                                           *)
InsertCandidatesOk(r) ==
    /\ pc[r] = "insert_candidates"
    /\ candidate_log' = candidate_log \o CandidateRows(r, loc[r].qid, loc[r].to_log)
    /\ loc' = [loc EXCEPT ![r] = [logged |-> TRUE]]
    /\ resp' = [resp EXCEPT ![r] =
                   [status |-> 200, query_id |-> loc[r].qid, results |-> loc[r].hits]]
    /\ pc' = [pc EXCEPT ![r] = "done"]
    /\ UNCHANGED <<req, query_log, next_id, encoding>>

(* the candidate insert wrapped in try/except that answers all the same *)
InsertCandidatesFail_swallowed(r) ==
    /\ pc[r] = "insert_candidates"
    /\ loc' = [loc EXCEPT ![r] = [failed |-> "insert_candidates"]]
    /\ resp' = [resp EXCEPT ![r] =
                   [status |-> 200, query_id |-> loc[r].qid, results |-> loc[r].hits]]
    /\ pc' = [pc EXCEPT ![r] = "done"]
    /\ UNCHANGED <<req, query_log, candidate_log, next_id, encoding>>

(* insert_candidates raises: its own transaction rolls back, the query     *)
(* row committed by insert_query stays                                     *)
InsertCandidatesFail(r) ==
    /\ pc[r] = "insert_candidates"
    /\ Raise(r, "insert_candidates")
    /\ UNCHANGED <<req, query_log, candidate_log, next_id, encoding>>

Init == ServerInit /\ PureIdle /\ QueryIdle /\ ChunkIdle

Next ==
    \E r \in Reqs :
        \/ Receive(r) /\ UNCHANGED <<labels, offlineVars>>
        \/ LexReturn(r) /\ UNCHANGED <<labels, offlineVars>>
        \/ LexFail(r) /\ UNCHANGED <<labels, offlineVars>>
        \/ EncodeArticlesDone(r) /\ UNCHANGED <<labels, offlineVars>>
        \/ SemArticlesReturn(r) /\ UNCHANGED <<labels, offlineVars>>
        \/ SemArticlesFail(r) /\ UNCHANGED <<labels, offlineVars>>
        \/ EncodeChunksDone(r) /\ UNCHANGED <<labels, offlineVars>>
        \/ SemChunksReturn(r) /\ UNCHANGED <<labels, offlineVars>>
        \/ SemChunksFail(r) /\ UNCHANGED <<labels, offlineVars>>
        \/ InsertQueryOk(r) /\ UNCHANGED <<labels, offlineVars>>
        \/ InsertQueryFail(r) /\ UNCHANGED <<labels, offlineVars>>
        \/ InsertCandidatesOk(r) /\ UNCHANGED <<labels, offlineVars>>
        \/ InsertCandidatesFail(r) /\ UNCHANGED <<labels, offlineVars>>

Spec == Init /\ [][Next]_vars

-----------------------------------------------------------------------------
(* The feedback endpoints /label and /label_query (hybrid_search_api.py    *)
(* 425-438).  Both are plain def endpoints, so their handlers run on       *)
(* worker threads like /search and stop once, inside insert_label.  The    *)
(* store already holds the query_log row of an earlier /search (id 1):     *)
(* labels.query_id references query_log(id) (db.py 66), so a label for an  *)
(* id without a row is refused by the database.                            *)

LabelQueryIds == {1, 2}
LabelArticleIds == {None, "1"}
LabelValues == {0, 1, 2}
QueryLabelValues == {0, 1}
Notes == {None, "none of these"}

InitLabel ==
    /\ pc = [r \in Reqs |-> "idle"]
    /\ req = [r \in Reqs |-> <<>>]
    /\ loc = [r \in Reqs |-> <<>>]
    /\ query_log = <<[id |-> 1, by |-> 0, query_raw |-> "asha", cand_n |-> 0]>>
    /\ candidate_log = <<>>
    /\ next_id = 2
    /\ encoding = {}
    /\ resp = [r \in Reqs |-> [status |-> 0]]
    /\ labels = <<>>
    /\ PureIdle
    /\ QueryIdle
    /\ ChunkIdle

(* the arguments the handler gives insert_label *)
LabelArgs(qid, aid, lab, note) ==
    [query_id |-> qid, article_id |-> aid, label |-> lab, note |-> note]

(* /label that stores whatever label it is given *)
LabelReceive_any_label(r) ==
    /\ pc[r] = "idle"
    /\ \E qid \in LabelQueryIds, aid \in LabelArticleIds, lab \in LabelValues, note \in Notes :
          /\ req' = [req EXCEPT ![r] = [endpoint |-> "label", query_id |-> qid,
                                        article_id |-> aid, label |-> lab, note |-> note]]
          /\ loc' = [loc EXCEPT ![r] = [args |-> LabelArgs(qid, aid, lab, note)]]
          /\ pc' = [pc EXCEPT ![r] = "insert_label"]
          /\ resp' = resp
    /\ UNCHANGED <<query_log, candidate_log, next_id, encoding, labels>>

(* label, lines 426-429: LabelRequest (lines 187-191) leaves article_id    *)
(* and note optional; the handler checks the label alone and calls         *)
(* insert_label with the four fields of the request                        *)
LabelReceive(r) ==
    /\ pc[r] = "idle"
    /\ \E qid \in LabelQueryIds, aid \in LabelArticleIds, lab \in LabelValues, note \in Notes :
          /\ req' = [req EXCEPT ![r] = [endpoint |-> "label", query_id |-> qid,
                                        article_id |-> aid, label |-> lab, note |-> note]]
          /\ IF lab \notin {0, 1}
             THEN /\ resp' = [resp EXCEPT ![r] = [status |-> 400]]
                  /\ pc' = [pc EXCEPT ![r] = "done"]
                  /\ loc' = loc
             ELSE /\ loc' = [loc EXCEPT ![r] = [args |-> LabelArgs(qid, aid, lab, note)]]
                  /\ pc' = [pc EXCEPT ![r] = "insert_label"]
                  /\ resp' = resp
    /\ UNCHANGED <<query_log, candidate_log, next_id, encoding, labels>>

(* /label_query that passes the label of the request on *)
LabelQueryReceive_any_label(r) ==
    /\ pc[r] = "idle"
    /\ \E qid \in LabelQueryIds, lab \in QueryLabelValues, note \in Notes :
          /\ req' = [req EXCEPT ![r] = [endpoint |-> "label_query", query_id |-> qid,
                                        label |-> lab, note |-> note]]
          /\ loc' = [loc EXCEPT ![r] = [args |-> LabelArgs(qid, None, lab, note)]]
          /\ pc' = [pc EXCEPT ![r] = "insert_label"]
          /\ resp' = resp
    /\ UNCHANGED <<query_log, candidate_log, next_id, encoding, labels>>

(* label_query, lines 433-437: only label 0; insert_label is called with   *)
(* article_id None and label 0                                             *)
LabelQueryReceive(r) ==
    /\ pc[r] = "idle"
    /\ \E qid \in LabelQueryIds, lab \in QueryLabelValues, note \in Notes :
          /\ req' = [req EXCEPT ![r] = [endpoint |-> "label_query", query_id |-> qid,
                                        label |-> lab, note |-> note]]
          /\ IF lab # 0
             THEN /\ resp' = [resp EXCEPT ![r] = [status |-> 400]]
                  /\ pc' = [pc EXCEPT ![r] = "done"]
                  /\ loc' = loc
             ELSE /\ loc' = [loc EXCEPT ![r] = [args |-> LabelArgs(qid, None, 0, note)]]
                  /\ pc' = [pc EXCEPT ![r] = "insert_label"]
                  /\ resp' = resp
    /\ UNCHANGED <<query_log, candidate_log, next_id, encoding, labels>>

(* insert_label commits one row in its own transaction (db.py 165-176);    *)
(* lines 430 / 438 return {"ok": True}                                     *)
InsertLabelOk(r) ==
    /\ pc[r] = "insert_label"
    /\ \E i \in DOMAIN query_log : query_log[i].id = loc[r].args.query_id
    /\ labels' = Append(labels, Put(loc[r].args, "by", r))
    /\ loc' = [loc EXCEPT ![r] = [logged |-> TRUE]]
    /\ resp' = [resp EXCEPT ![r] = [status |-> 200, ok |-> TRUE]]
    /\ pc' = [pc EXCEPT ![r] = "done"]
    /\ UNCHANGED <<req, query_log, candidate_log, next_id, encoding>>

(* insert_label raises (no query_log row with that id, or the database is  *)
(* down): the transaction rolls back and FastAPI answers 500               *)
InsertLabelFail(r) ==
    /\ pc[r] = "insert_label"
    /\ Raise(r, "insert_label")
    /\ UNCHANGED <<req, query_log, candidate_log, next_id, encoding, labels>>

NextLabel ==
    \E r \in Reqs :
        \/ LabelReceive(r) /\ UNCHANGED offlineVars
        \/ LabelQueryReceive(r) /\ UNCHANGED offlineVars
        \/ InsertLabelOk(r) /\ UNCHANGED offlineVars
        \/ InsertLabelFail(r) /\ UNCHANGED offlineVars

SpecLabel == InitLabel /\ [][NextLabel]_vars

-----------------------------------------------------------------------------
(* Properties of the /search handler (Spec) *)

HasQueryRow(r) == \E i \in DOMAIN query_log : query_log[i].by = r
QueryRowOf(r) == query_log[CHOOSE i \in DOMAIN query_log : query_log[i].by = r]
CandRowsOf(r) == {i \in DOMAIN candidate_log : candidate_log[i].by = r}
EndedHow(r) == Get(loc[r], "failed", None)
RetrievalCalls == {"lex", "sem_a", "sem_c"}

\* C1: a query_log row of a request exists only once its lexical call, both
\* vector calls and the ranking have completed without error; a request whose
\* retrieval call failed has ended with an error and has written neither a
\* query_log row nor a candidate_log row.
QueryRowAfterRetrieval ==
    \A r \in Reqs :
        /\ HasQueryRow(r) => pc[r] \in {"insert_candidates", "done"}
        /\ HasQueryRow(r) /\ pc[r] # "done" =>
              /\ {"lex", "sem_a", "sem_c", "candidates", "ranked"} \subseteq DOMAIN loc[r]
              /\ "failed" \notin DOMAIN loc[r]
        /\ EndedHow(r) \in RetrievalCalls \cup {"hits"} =>
              /\ pc[r] = "done"
              /\ resp[r].status = 500
              /\ ~HasQueryRow(r)
              /\ CandRowsOf(r) = {}

(* one request has inserted its query row after its three calls, another   *)
(* has ended on a failed chunk search                                      *)
QueryRowAfterRetrievalWitness ==
    \E r1, r2 \in Reqs :
        /\ pc[r1] = "insert_candidates"
        /\ HasQueryRow(r1)
        /\ EndedHow(r2) = "sem_c"
        /\ resp[r2].status = 500

ResponseAfterLog ==
    \A r \in Reqs :
        /\ pc[r] # "done" => resp[r].status = 0
        /\ resp[r].status = 200 =>
              /\ HasQueryRow(r)
              /\ QueryRowOf(r).id = resp[r].query_id
              /\ "logged" \in DOMAIN loc[r]
              /\ Cardinality(CandRowsOf(r)) = Min(LOG_CANDIDATES_TOPN, QueryRowOf(r).cand_n)
        /\ EndedHow(r) \in {"insert_query", "insert_candidates"} => resp[r].status = 500

(* one request was answered after both inserts, another ended on a failed  *)
(* candidate insert                                                        *)
ResponseAfterLogWitness ==
    \E r1, r2 \in Reqs :
        /\ resp[r1].status = 200
        /\ HasQueryRow(r1)
        /\ EndedHow(r2) = "insert_candidates"
        /\ resp[r2].status = 500

\* C4: the three fan-out calls of a request are issued in parallel, each
\* before any other of them has returned, and the merge starts only when all
\* three have returned.
FanoutParallel ==
    \A r \in Reqs :
        /\ "issue" \in DOMAIN loc[r] =>
              \A c \in DOMAIN loc[r].issue : loc[r].issue[c] = {}
        /\ "candidates" \in DOMAIN loc[r] => Returned(loc[r]) = RetrievalCalls

\* C6: at no time are two requests inside model.encode of the one shared
\* embedding model.
EncoderExclusive == Cardinality(encoding) <= 1

\* C7: a search response never carries more results than the request's
\* per_page, for every integer per_page.
ResultsWithinPerPage ==
    \A r \in Reqs :
        resp[r].status = 200 => Len(resp[r].results) <= req[r].per_page

-----------------------------------------------------------------------------
(* Properties of the merger (SpecMerge) *)

SetMax(S) == CHOOSE v \in S : \A w \in S : v >= w
SetMin(S) == CHOOSE v \in S : \A w \in S : v <= w

(* article ids of the three fan-outs, lexical first, then article vectors, *)
(* then chunk vectors, each in the order the store returned them           *)
FanoutIds ==
    [i \in DOMAIN lex_hits |-> lex_hits[i].article_id]
    \o [i \in DOMAIN sem_art |-> sem_art[i][1]]
    \o [i \in DOMAIN sem_chk |-> sem_chk[i][2]]

FirstPos(a) == SetMin({i \in DOMAIN FanoutIds : FanoutIds[i] = a})

RefLexical(a) ==
    SetMax({0} \cup {lex_hits[i].lexical_score :
                        i \in {j \in DOMAIN lex_hits : lex_hits[j].article_id = a}})
RefSemArticle(a) ==
    SetMax({0} \cup {sem_art[i][2] : i \in {j \in DOMAIN sem_art : sem_art[j][1] = a}})
RefSemChunk(a) ==
    SetMax({0} \cup {sem_chk[i][3] : i \in {j \in DOMAIN sem_chk : sem_chk[j][2] = a}})
RefSum(a) == RefLexical(a) + RefSemChunk(a) + RefSemArticle(a)

RefBefore(a, b) ==
    RefSum(a) > RefSum(b) \/ (RefSum(a) = RefSum(b) /\ FirstPos(a) < FirstPos(b))

KeptIds == {candidates[i].article_id : i \in DOMAIN candidates}

\* C5: the merged list is a fixed function of the three fan-out results.  Its
\* members are the articles of the fan-outs, each carries the per-fan-out
\* maxima, and its order is descending raw sum with ties in the fixed order
\* lexical list, article list, chunk list; nothing in it depends on the order
\* in which the fan-outs came back.
MergerCommutative ==
    phase = "merged" =>
        /\ KeptIds \subseteq Range(FanoutIds)
        /\ Len(candidates) = Min(CANDIDATE_CAP, Cardinality(Range(FanoutIds)))
        /\ \A i \in DOMAIN candidates :
              /\ candidates[i].lexical_score = RefLexical(candidates[i].article_id)
              /\ candidates[i].sem_article = RefSemArticle(candidates[i].article_id)
              /\ candidates[i].sem_chunk = RefSemChunk(candidates[i].article_id)
        /\ \A i, j \in DOMAIN candidates :
              i < j => RefBefore(candidates[i].article_id, candidates[j].article_id)
        /\ \A a \in Range(FanoutIds) \ KeptIds :
              \A i \in DOMAIN candidates : RefBefore(candidates[i].article_id, a)

(* two articles tie on raw sum and come from different fan-outs *)
MergerCommutativeWitness ==
    /\ phase = "merged"
    /\ Len(candidates) = 2
    /\ lex_hits # <<>>
    /\ sem_chk # <<>>
    /\ RawSum(candidates[1]) = RawSum(candidates[2])
    /\ candidates[1].lexical_score > 0
    /\ candidates[2].lexical_score = 0
    /\ candidates[2].sem_chunk > 0

\* C9: the list handed to the ranker has at most CANDIDATE_CAP entries, and
\* every merged article left out has a raw sum no larger than that of every
\* entry kept.
CapKeepsTop ==
    phase = "merged" =>
        LET cand == MergedDict(lex_hits, sem_art, sem_chk)
        IN /\ Len(candidates) <= CANDIDATE_CAP
           /\ KeptIds \subseteq DOMAIN cand.m
           /\ \A a \in DOMAIN cand.m \ KeptIds :
                 \A i \in DOMAIN candidates :
                    RawSum(candidates[i]) >= RawSum(CandidateOut(a, cand.m[a]))

(* more articles than the cap, and the first one merged is the one dropped *)
CapKeepsTopWitness ==
    /\ phase = "merged"
    /\ LET cand == MergedDict(lex_hits, sem_art, sem_chk)
       IN /\ Len(cand.order) > CANDIDATE_CAP
          /\ Len(candidates) = CANDIDATE_CAP
          /\ cand.order[1] \notin KeptIds
          /\ \A i \in DOMAIN candidates :
                RawSum(candidates[i]) > RawSum(CandidateOut(cand.order[1], cand.m[cand.order[1]]))

-----------------------------------------------------------------------------
(* Properties of the ranker (SpecRank) *)

WeightSum == W_LEX + W_SC + W_SA + W_TAG + W_CAT + W_LOC + W_CONTRIB + W_REC

\* C8: after ranking, position i carries rank i, so the ranks are exactly
\* 1..n for the n candidates, and the scores are non-increasing along the list.
RanksDenseAndSorted ==
    phase = "ranked" =>
        /\ Len(ranked) = Len(candidates)
        /\ \A i \in DOMAIN ranked : ranked[i].rank = i
        /\ {ranked[i].rank : i \in DOMAIN ranked} = 1..Len(candidates)
        /\ \A i \in DOMAIN ranked :
              i < Len(ranked) => ranked[i].score >= ranked[i + 1].score

(* the sort moved the second candidate in front of the first *)
RanksDenseAndSortedWitness ==
    /\ phase = "ranked"
    /\ Len(ranked) = 2
    /\ ranked[1].score > ranked[2].score
    /\ ranked[1].article_id = candidates[2].article_id
    /\ ranked[2].article_id = candidates[1].article_id
    /\ candidates[1].article_id # candidates[2].article_id

\* C10: every ranked candidate's score lies between 0 and the sum of the
\* eight weights (2.09), whatever the raw signals, metadata and dates.
ScoreBounded ==
    phase = "ranked" =>
        \A i \in DOMAIN ranked :
            ranked[i].score >= 0 /\ ranked[i].score <= WeightSum * SCALE

(* a list with a negative raw signal in which one candidate scores 2.09 and *)
(* one scores 0                                                            *)
ScoreBoundedWitness ==
    /\ phase = "ranked"
    /\ \E i \in DOMAIN ranked : ranked[i].score = WeightSum * SCALE
    /\ \E i \in DOMAIN ranked : ranked[i].score = 0 /\ ranked[i].sem_chunk < 0

-----------------------------------------------------------------------------
(* Properties of the request validation and of the feedback endpoints *)

RowsBy(table, r) == {i \in DOMAIN table : table[i].by = r}

\* C11: a /search request whose query is empty or only whitespace is answered
\* 400 before any external call is issued, and it has written no row to
\* query_log, candidate_log or labels.
EmptyQueryRejected ==
    \A r \in Reqs :
        ("query" \in DOMAIN req[r] /\ strip(req[r].query) = "") =>
            /\ pc[r] = "done"
            /\ resp[r].status = 400
            /\ loc[r] = <<>>
            /\ RowsBy(query_log, r) = {}
            /\ RowsBy(candidate_log, r) = {}
            /\ RowsBy(labels, r) = {}

(* a whitespace-only query was refused while another request was logged *)
EmptyQueryRejectedWitness ==
    \E r, o \in Reqs :
        /\ "query" \in DOMAIN req[r]
        /\ req[r].query = " "
        /\ resp[r].status = 400
        /\ RowsBy(query_log, o) # {}

\* C12: POST /label with a label outside {0, 1} is answered 400 and inserts no
\* row; with a label in {0, 1} it inserts exactly one labels row, carrying the
\* request's query_id, article_id, label and note, and answers ok (no row is
\* left when insert_label itself fails).
LabelValidated ==
    \A r \in Reqs :
        ("endpoint" \in DOMAIN req[r] /\ req[r].endpoint = "label") =>
            /\ req[r].label \notin {0, 1} =>
                  /\ pc[r] = "done"
                  /\ resp[r].status = 400
                  /\ RowsBy(labels, r) = {}
            /\ req[r].label \in {0, 1} =>
                  /\ resp[r].status \in {0, 200, 500}
                  /\ Cardinality(RowsBy(labels, r)) = (IF resp[r].status = 200 THEN 1 ELSE 0)
                  /\ \A i \in RowsBy(labels, r) :
                        /\ labels[i].query_id = req[r].query_id
                        /\ labels[i].article_id = req[r].article_id
                        /\ labels[i].label = req[r].label
                        /\ labels[i].note = req[r].note

(* one /label stored a positive label with a note, another was refused *)
LabelValidatedWitness ==
    \E r, o \in Reqs :
        /\ "endpoint" \in DOMAIN req[r] /\ req[r].endpoint = "label"
        /\ "endpoint" \in DOMAIN req[o] /\ req[o].endpoint = "label"
        /\ req[r].label = 1 /\ req[r].article_id = "1" /\ req[r].note # None
        /\ resp[r].status = 200
        /\ \E i \in DOMAIN labels : labels[i].by = r /\ labels[i].label = 1
        /\ req[o].label = 2 /\ resp[o].status = 400

\* C13: POST /label does not accept a null article_id: such a request is
\* rejected and inserts no row, so every labels row with article_id null comes
\* from /label_query and has label 0.
LabelRequiresArticle ==
    /\ \A r \in Reqs :
          ("endpoint" \in DOMAIN req[r] /\ req[r].endpoint = "label"
              /\ req[r].article_id = None) =>
                 /\ resp[r].status # 200
                 /\ RowsBy(labels, r) = {}
    /\ \A i \in DOMAIN labels :
          labels[i].article_id = None =>
              /\ req[labels[i].by].endpoint = "label_query"
              /\ labels[i].label = 0

\* C14: POST /label_query accepts only label 0: any other label is answered
\* 400 and inserts nothing; with label 0 it inserts exactly one labels row,
\* with article_id null and label 0, for the request's query_id.
QueryLabelValidated ==
    \A r \in Reqs :
        ("endpoint" \in DOMAIN req[r] /\ req[r].endpoint = "label_query") =>
            /\ req[r].label # 0 =>
                  /\ pc[r] = "done"
                  /\ resp[r].status = 400
                  /\ RowsBy(labels, r) = {}
            /\ req[r].label = 0 =>
                  /\ resp[r].status \in {0, 200, 500}
                  /\ Cardinality(RowsBy(labels, r)) = (IF resp[r].status = 200 THEN 1 ELSE 0)
                  /\ \A i \in RowsBy(labels, r) :
                        /\ labels[i].query_id = req[r].query_id
                        /\ labels[i].article_id = None
                        /\ labels[i].label = 0
                        /\ labels[i].note = req[r].note

(* one /label_query stored its row, another was refused *)
QueryLabelValidatedWitness ==
    \E r, o \in Reqs :
        /\ "endpoint" \in DOMAIN req[r] /\ req[r].endpoint = "label_query"
        /\ "endpoint" \in DOMAIN req[o] /\ req[o].endpoint = "label_query"
        /\ req[r].label = 0 /\ resp[r].status = 200
        /\ \E i \in DOMAIN labels : labels[i].by = r /\ labels[i].article_id = None
        /\ req[o].label = 1 /\ resp[o].status = 400

\* C15: semantic-only recall: when the lexical call and the article-vector call
\* return no hit and the chunk-vector call returns one hit (chunk c of article
\* a), the request goes on to its response with exactly one hit, article a at
\* rank 1 with lex_n = sa_n = sc_n = 0 and the text of chunk c as snippet.
SemanticOnlyRecall ==
    [][\A r \in Reqs :
          (/\ pc[r] = "sem_c"
           /\ loc[r].lex = <<>>
           /\ loc[r].sem_a = <<>>
           /\ pc'[r] # "sem_c"
           /\ Get(loc'[r], "failed", None) # "sem_c"
           /\ ~("sem_c" \in DOMAIN loc'[r] /\ loc'[r].sem_c = <<>>))
          => /\ pc'[r] = "insert_query"
             /\ Len(loc'[r].hits) = 1
             /\ loc'[r].hits[1].rank = 1
             /\ loc'[r].hits[1].article_id = loc'[r].sem_c[1][2]
             /\ loc'[r].hits[1].snippet = chunk_text_map[loc'[r].sem_c[1][1]]
             /\ loc'[r].ranked[1].features.lex_norm = 0
             /\ loc'[r].ranked[1].features.sem_article_norm = 0
             /\ loc'[r].ranked[1].features.sem_chunk_norm = 0
      ]_vars

-----------------------------------------------------------------------------
(* Strings.  A Python str is a sequence of characters.  A character is a   *)
(* one-letter string or, outside ASCII, its name: "NL" newline, "TAB" tab, *)
(* "NBSP" U+00A0, "ZWJ" U+200D, "RSQUO" U+2019, "BTICK" U+0060, "KA"       *)
(* U+0915 (script Devanagari), "DANDA" U+0964 (script Common), "ER" "IE"   *)
(* "DE" U+0440 U+0435 U+0434.  An Optional[str] is a sequence with no      *)
(* element (None) or one (the str).                                        *)

LowerLetters ==
    <<"a", "b", "c", "d", "e", "f", "g", "h", "i", "j", "k", "l", "m",
      "n", "o", "p", "q", "r", "s", "t", "u", "v", "w", "x", "y", "z">>
UpperLetters ==
    <<"A", "B", "C", "D", "E", "F", "G", "H", "I", "J", "K", "L", "M",
      "N", "O", "P", "Q", "R", "S", "T", "U", "V", "W", "X", "Y", "Z">>
Digits == {"0", "1", "2", "3", "4", "5", "6", "7", "8", "9"}
Whitespace == {" ", "NL", "TAB", "NBSP"}        \* str.isspace, regex \s
DevanagariScript == {"KA"}                       \* regex \p{Devanagari}
ZeroWidth == {"ZWJ"}
Alphabet ==
    Range(LowerLetters) \cup Range(UpperLetters) \cup Digits \cup Whitespace
        \cup DevanagariScript \cup ZeroWidth
        \cup {"DANDA", "RSQUO", "ER", "IE", "DE", "'", ",", ";", ":", "!", "?",
              "-", "_", "BTICK", "\\", "(", ")", "[", "]", "=", "&"}
(* regex \w: str.isalnum or underscore *)
WordChars ==
    Range(LowerLetters) \cup Range(UpperLetters) \cup Digits
        \cup {"_", "KA", "ER", "IE", "DE"}

Nothing == <<>>
Just(s) == <<s>>
(* the truth value of an Optional[str]: neither None nor "" *)
Truthy(o) == o # <<>> /\ o[1] # <<>>

lower_char(c) ==
    IF c \in Range(UpperLetters)
    THEN LowerLetters[CHOOSE i \in DOMAIN UpperLetters : UpperLetters[i] = c]
    ELSE c
lower(s) == [i \in DOMAIN s |-> lower_char(s[i])]

Drop(s, k) == SubSeq(s, k + 1, Len(s))

(* how many characters of C follow each other in s from position i on, and *)
(* up to position i                                                        *)
RunFrom(s, i, C) ==
    LET stops == {j \in i..Len(s) : s[j] \notin C}
    IN IF stops = {} THEN Max(0, Len(s) - i + 1) ELSE SetMin(stops) - i
RunBack(s, i, C) ==
    LET stops == {j \in 1..Min(i, Len(s)) : s[j] \notin C}
    IN IF stops = {} THEN Min(i, Len(s)) ELSE i - SetMax(stops)
RunLen(s, C) == RunFrom(s, 1, C)

lstrip(s) == Drop(s, RunLen(s, Whitespace))
rstrip(s) == SubSeq(s, 1, Len(s) - RunBack(s, Len(s), Whitespace))
Strip(s) == rstrip(lstrip(s))
Remove(s, C) == SelectSeq(s, LAMBDA c : c \notin C)
Replace(s, a, b) == [i \in DOMAIN s |-> IF s[i] = a THEN b ELSE s[i]]
StartsWith(s, i, p) == i + Len(p) - 1 <= Len(s) /\ SubSeq(s, i, i + Len(p) - 1) = p
(* p in s *)
Contains(s, p) == \E i \in 1..(Len(s) - Len(p) + 1) : StartsWith(s, i, p)

(* the strings of ss one after the other *)
RECURSIVE Flatten(_)
Flatten(ss) ==
    IF Len(ss) = 0 THEN <<>>
    ELSE IF Len(ss) = 1 THEN ss[1]
    ELSE LET h == Len(ss) \div 2
         IN Flatten(SubSeq(ss, 1, h)) \o Flatten(SubSeq(ss, h + 1, Len(ss)))

(* sep.join(parts) *)
RECURSIVE Join(_, _)
Join(parts, sep) ==
    IF parts = <<>> THEN <<>>
    ELSE IF Len(parts) = 1 THEN parts[1]
    ELSE parts[1] \o sep \o Join(Tail(parts), sep)

(* re.sub(r"[C]{n,}", repl, s): every maximal run of n or more characters  *)
(* of C becomes repl (written at the first position of the run)            *)
SubRuns(s, C, n, repl) ==
    Flatten([i \in DOMAIN s |->
        IF s[i] \notin C THEN <<s[i]>>
        ELSE IF RunBack(s, i, C) + RunFrom(s, i, C) - 1 < n THEN <<s[i]>>
        ELSE IF RunBack(s, i, C) = 1 THEN repl
        ELSE <<>>])

(* regex \b before position i of s (i = Len(s) + 1: at the end) *)
WordBoundary(s, i) ==
    (i > 1 /\ s[i - 1] \in WordChars) # (i <= Len(s) /\ s[i] \in WordChars)

(* the alternatives of r"\b(p1|p2|...)\b" that match s at position i; the  *)
(* patterns are words, so a match is a whole word and two matches never    *)
(* overlap                                                                 *)
WordMatches(s, i, pats) ==
    {k \in DOMAIN pats :
        /\ StartsWith(s, i, pats[k])
        /\ WordBoundary(s, i)
        /\ WordBoundary(s, i + Len(pats[k]))}

(* re.sub(r"\b(p1|p2|...)\b", repl, s) *)
SubWords(s, pats, repl) ==
    Flatten([i \in DOMAIN s |->
        IF WordMatches(s, i, pats) # {} THEN repl
        ELSE IF \E j \in 1..(i - 1) :
                   \E k \in WordMatches(s, j, pats) : i < j + Len(pats[k])
             THEN <<>>
             ELSE <<s[i]>>])

(* is_nullish of a str *)
is_nullish(s) == Strip(s) = <<>>

-----------------------------------------------------------------------------
(* Query canonicalization (scripts/utils.py) *)

(* ftfy.fix_text (line 118) on the alphabet: the curly quote is uncurled,  *)
(* no other character of the alphabet is rewritten                         *)
fix_text(s) == Replace(s, "RSQUO", "'")

(* unicodedata.normalize("NFKC", .) (line 119) on the alphabet: the        *)
(* no-break space becomes a space                                          *)
NFKC(s) == Replace(s, "NBSP", " ")

(* the character class of lines 130-131: its first three characters are    *)
(* U+0440 U+0435 U+0434, then , ; : ! ?                                    *)
SpacedPunct == {"ER", "IE", "DE", ",", ";", ":", "!", "?"}

(* re.sub(r"\s+([P])", r"\1", s) (line 130): a run of whitespace right     *)
(* before a character of P is removed                                      *)
NoSpaceBefore(s, P) ==
    SelectSeq([i \in DOMAIN s |->
                  LET n == i + RunFrom(s, i, Whitespace)
                  IN IF s[i] \in Whitespace /\ n <= Len(s) /\ s[n] \in P
                     THEN "" ELSE s[i]],
              LAMBDA c : c # "")

(* re.sub(r"([P])([^\s\n])", r"\1 \2", s) (line 131): matches do not       *)
(* overlap and the character after P is consumed by the match, so in a run *)
(* of positions where the pattern fits the matches are the first, the      *)
(* third, ... of the run                                                   *)
SpaceAfter(s, P) ==
    LET fits == {i \in 1..(Len(s) - 1) : s[i] \in P /\ s[i + 1] \notin Whitespace}
        before(i) == i - 1 - SetMax({j \in 0..(i - 1) : j \notin fits})
        matches == {i \in fits : before(i) % 2 = 0}
    IN Flatten([i \in DOMAIN s |-> IF i \in matches THEN <<s[i], " ">> ELSE <<s[i]>>])

(* lines 110-133; the alphabet has no carriage return (line 125) *)
normalize_devanagari_text(s) ==
    IF is_nullish(s) THEN Nothing
    ELSE LET s1 == Remove(NFKC(fix_text(s)), ZeroWidth)
             s2 == SubRuns(s1, {" ", "TAB"}, 1, <<" ">>)
             s3 == Strip(SubRuns(s2, {"NL"}, 3, <<"NL", "NL">>))
         IN Just(SpaceAfter(NoSpaceBefore(s3, SpacedPunct), SpacedPunct))

(* script_stats (lines 139-148), its counts instead of its ratios *)
script_stats(s) ==
    IF is_nullish(s) \/ Len(s) = 0 THEN [len |-> 0, dev |-> 0]
    ELSE [len |-> Len(s), dev |-> Len(SelectSeq(s, LAMBDA c : c \in DevanagariScript))]

(* 1 / 0.02: dev / len > 0.02 is written DEV_PCT_INV * dev > len *)
DEV_PCT_INV == 50

is_query_devanagari(q) ==
    LET ss == script_stats(q) IN DEV_PCT_INV * ss.dev > ss.len

YOJANA == <<"y", "o", "j", "a", "n", "a">>
YOJNA == <<"y", "o", "j", "n", "a">>
YOJNAA == <<"y", "o", "j", "n", "a", "a">>

(* roman_normalize_for_index without line 274 *)
roman_normalize_for_index_keeps_v(s) ==
    IF is_nullish(s) THEN <<>>
    ELSE LET t0 == Strip(lower(s))
             t1 == SubRuns(t0, Alphabet \ (Range(LowerLetters) \cup Digits \cup Whitespace),
                           1, <<" ">>)
             t2 == Strip(SubRuns(t1, Whitespace, 1, <<" ">>))
             t3 == SubRuns(t2, {"a"}, 2, <<"a">>)
             t4 == SubRuns(t3, {"i"}, 2, <<"i">>)
             t5 == SubRuns(t4, {"u"}, 2, <<"u">>)
             t6 == SubRuns(t5, {"e"}, 2, <<"e">>)
             t7 == SubRuns(t6, {"o"}, 2, <<"o">>)
             t9 == SubWords(t7, <<YOJNA, YOJANA, YOJNAA>>, YOJANA)
         IN Strip(SubRuns(t9, Whitespace, 1, <<" ">>))

(* lines 255-278 *)
roman_normalize_for_index(s) ==
    IF is_nullish(s) THEN <<>>
    ELSE LET t0 == Strip(lower(s))
             t1 == SubRuns(t0, Alphabet \ (Range(LowerLetters) \cup Digits \cup Whitespace),
                           1, <<" ">>)
             t2 == Strip(SubRuns(t1, Whitespace, 1, <<" ">>))
             t3 == SubRuns(t2, {"a"}, 2, <<"a">>)
             t4 == SubRuns(t3, {"i"}, 2, <<"i">>)
             t5 == SubRuns(t4, {"u"}, 2, <<"u">>)
             t6 == SubRuns(t5, {"e"}, 2, <<"e">>)
             t7 == SubRuns(t6, {"o"}, 2, <<"o">>)
             t8 == Replace(t7, "v", "w")
             t9 == SubWords(t8, <<YOJNA, YOJANA, YOJNAA>>, YOJANA)
         IN Strip(SubRuns(t9, Whitespace, 1, <<" ">>))

(* lines 286-297 *)
canonicalize_query_for_search(raw_query) ==
    LET r == IF is_nullish(raw_query) THEN <<>> ELSE raw_query
    IN IF is_query_devanagari(r)
       THEN LET n == normalize_devanagari_text(r)
                dev == IF Truthy(n) THEN n[1] ELSE r
            IN [raw |-> r, mode |-> "dev", q |-> dev, roman_norm |-> <<>>]
       ELSE LET roman_norm == roman_normalize_for_index(r)
            IN [raw |-> r, mode |-> "roman", q |-> roman_norm, roman_norm |-> roman_norm]

(* The canonicalizer on its own: both functions applied to every raw query *)
(* made of at most MaxPieces fragments.                                    *)

MaxPieces == 2

Repeat(p, n) == [i \in 1..(n * Len(p)) |-> p[((i - 1) % Len(p)) + 1]]

(* a list of 24 items separated by commas without spaces, 48 characters *)
CommaList == Repeat(<<",", "a">>, 24)

Fragments ==
    {<<"Y", "o", "j", "n", "a", "a">>, YOJANA, YOJNA,
     <<"v", "i", "k", "a", "s">>, <<"w", "i", "k", "a", "s">>,
     <<"a">>, <<"e">>, <<"2">>, <<" ">>, <<"-">>, <<",">>, <<"NL">>,
     <<"NBSP">>, <<"ZWJ">>, <<"RSQUO">>, <<"KA">>, CommaList}

RawQueries ==
    UNION {{Flatten(ps) : ps \in [1..n -> Fragments]} : n \in 0..MaxPieces}

InitCanon ==
    /\ ServerInit
    /\ ChunkIdle
    /\ phase = "input"
    /\ lex_hits = <<>>
    /\ sem_art = <<>>
    /\ sem_chk = <<>>
    /\ candidates = <<>>
    /\ q_tokens = <<>>
    /\ ranked = <<>>
    /\ raw \in RawQueries
    /\ filter_by = Nothing
    /\ gazetteer = <<>>
    /\ result = <<>>

Canonicalize ==
    /\ phase = "input"
    /\ result' = canonicalize_query_for_search(raw)
    /\ phase' = "canon"
    /\ UNCHANGED <<raw, filter_by, gazetteer>>
    /\ UNCHANGED <<serverVars, chunkVars, lex_hits, sem_art, sem_chk, candidates,
                   q_tokens, ranked>>

RomanNormalize ==
    /\ phase = "input"
    /\ result' = roman_normalize_for_index(raw)
    /\ phase' = "roman"
    /\ UNCHANGED <<raw, filter_by, gazetteer>>
    /\ UNCHANGED <<serverVars, chunkVars, lex_hits, sem_art, sem_chk, candidates,
                   q_tokens, ranked>>

NextCanon == Canonicalize \/ RomanNormalize

SpecCanon == InitCanon /\ [][NextCanon]_vars

(* the maximal runs of s without a character of C, in order *)
Split(s, C) ==
    Flatten([i \in DOMAIN s |->
        IF s[i] \notin C /\ (i = 1 \/ s[i - 1] \in C)
        THEN <<SubSeq(s, i, i + RunFrom(s, i, Alphabet \ C) - 1)>>
        ELSE <<>>])

\* C17: canonicalization is idempotent on its output in both modes:
\* canonicalizing the lexical query string q of a canonical form gives the
\* same q again.
CanonIdempotent ==
    phase = "canon" => canonicalize_query_for_search(result.q).q = result.q

\* C18: the output of roman normalization holds only a-z, 0-9 and single
\* spaces, no letter v and no two equal vowels in a row; the whole words
\* yojna, yojana and yojnaa all become yojana ("Yojnaa" and "yojana" give
\* "yojana", "vikas" and "wikas" give "wikas").
RomanCollapsed ==
    phase = "roman" =>
        LET t == result
            ws == Range(Split(lower(raw), Alphabet \ WordChars))
        IN /\ \A i \in DOMAIN t : t[i] \in Range(LowerLetters) \cup Digits \cup {" "}
           /\ t # <<>> => t[1] # " " /\ t[Len(t)] # " "
           /\ \A i \in 1..(Len(t) - 1) : ~(t[i] = " " /\ t[i + 1] = " ")
           /\ "v" \notin Range(t)
           /\ \A i \in 1..(Len(t) - 1) :
                 t[i] \in {"a", "e", "i", "o", "u"} => t[i + 1] # t[i]
           /\ YOJNA \notin Range(Split(t, {" "}))
           /\ YOJNAA \notin Range(Split(t, {" "}))
           /\ ws \cap {YOJNA, YOJANA, YOJNAA} # {} => YOJANA \in Range(Split(t, {" "}))
           /\ raw \in {<<"Y", "o", "j", "n", "a", "a">>, YOJANA} => t = YOJANA
           /\ raw \in {<<"v", "i", "k", "a", "s">>, <<"w", "i", "k", "a", "s">>}
                 => t = <<"w", "i", "k", "a", "s">>

(* "Yojnaa" was normalized to "yojana" *)
RomanCollapsedWitness ==
    /\ phase = "roman"
    /\ raw = <<"Y", "o", "j", "n", "a", "a">>
    /\ result = YOJANA

-----------------------------------------------------------------------------
(* Entities of a query (scripts/_phase4/query_entities.py) *)

_norm_ws(s) == SubRuns(lower(Strip(s)), Whitespace, 1, <<" ">>)

roman_norm(s) ==
    LET t0 == _norm_ws(s)
        t1 == SubRuns(t0, {"a"}, 2, <<"a", "a">>)
        t2 == SubRuns(t1, {"e"}, 2, <<"e", "e">>)
        t3 == SubRuns(t2, {"i"}, 2, <<"i", "i">>)
        t4 == SubRuns(t3, {"o"}, 2, <<"o", "o">>)
    IN SubRuns(t4, {"u"}, 2, <<"u", "u">>)

(* regex [\w\u0900-\u097F] *)
TokenChars == WordChars \cup {"KA", "DANDA"}

tokenize_loose(q) ==
    SelectSeq(Split(_norm_ws(q), Alphabet \ TokenChars), LAMBDA t : Len(t) >= 2)

_safe_ts_backtick(s) ==
    Flatten([i \in DOMAIN s |-> IF s[i] = "BTICK" THEN <<"\\", "BTICK">> ELSE <<s[i]>>])

Fields == <<"locations_norm", "contributors_norm", "categories_norm", "tags_norm">>

(* the characters of a field name *)
FieldChars(field) ==
    CASE field = "locations_norm" -> <<"l", "o", "c", "a", "t", "i", "o", "n", "s", "_", "n", "o", "r", "m">>
      [] field = "contributors_norm" -> 
            <<"c", "o", "n", "t", "r", "i", "b", "u", "t", "o", "r", "s", "_", "n", "o", "r", "m">>
      [] field = "categories_norm" -> <<"c", "a", "t", "e", "g", "o", "r", "i", "e", "s", "_", "n", "o", "r", "m">>
      [] field = "tags_norm" -> <<"t", "a", "g", "s", "_", "n", "o", "r", "m">>

_build_in_filter(field, values) ==
    IF values = <<>> THEN Nothing
    ELSE LET v == Join([i \in DOMAIN values |->
                         <<"BTICK">> \o _safe_ts_backtick(values[i]) \o <<"BTICK">>],
                       <<",">>)
         IN Just(FieldChars(field) \o <<":", "=", "[">> \o v \o <<"]">>)

MAX_PER_FIELD == 3

(* lines 92-97: the roman form vr of a value is in the roman query *)
RomanHit(q_roman, vr) == vr # <<>> /\ Contains(q_roman, vr)

(* lines 80-97: the i-th value, v_norm once normalized, is a phrase of the *)
(* query                                                                   *)
PhraseHit(q_used, q_roman, mode, v_norm, vals_r, i) ==
    /\ v_norm # <<>>
    /\ \/ Contains(q_used, v_norm)
       \/ /\ mode # "dev"
          /\ RomanHit(q_roman,
                      IF i <= Len(vals_r) THEN vals_r[i] ELSE roman_norm(v_norm))

(* the phrase pass of scan from the i-th value on; acc holds got and score *)
RECURSIVE PhrasePass(_, _, _, _, _, _, _, _)
PhrasePass(q_used, q_roman, mode, vals, vals_r, max_per_field, i, acc) ==
    IF i > Len(vals) \/ Len(acc.got) >= max_per_field THEN acc
    ELSE PhrasePass(q_used, q_roman, mode, vals, vals_r, max_per_field, i + 1,
             IF PhraseHit(q_used, q_roman, mode, _norm_ws(vals[i]), vals_r, i)
             THEN [got |-> Append(acc.got, vals[i]), score |-> acc.score + 2]
             ELSE acc)

(* lines 105-111: the value v with the tokens vtok shares a token with the *)
(* query and is not in got yet                                             *)
TokenHit(qtok, vtok, v, got) ==
    vtok # {} /\ qtok \cap vtok # {} /\ v \notin Range(got)

(* the token pass of scan from the i-th value on *)
RECURSIVE TokenPass(_, _, _, _, _)
TokenPass(qtok, vals, max_per_field, i, acc) ==
    IF i > Len(vals) \/ Len(acc.got) >= max_per_field THEN acc
    ELSE TokenPass(qtok, vals, max_per_field, i + 1,
             IF TokenHit(qtok, Range(tokenize_loose(vals[i])), vals[i], acc.got)
             THEN [got |-> Append(acc.got, vals[i]), score |-> acc.score + 1]
             ELSE acc)

(* the token pass letting one value more through than max_per_field *)
TokenFallback_one_more(allow_token, qtok, vals, max_per_field, phrase) ==
    IF allow_token /\ Len(phrase.got) < max_per_field
    THEN TokenPass(qtok, vals, max_per_field + 1, 1, phrase)
    ELSE phrase

(* lines 99-111: the token pass after the phrase pass gave phrase *)
TokenFallback(allow_token, qtok, vals, max_per_field, phrase) ==
    IF allow_token /\ Len(phrase.got) < max_per_field
    THEN TokenPass(qtok, vals, max_per_field, 1, phrase)
    ELSE phrase

scan(field, allow_token, q_used, q_roman, q_toks, mode, gaz, max_per_field) ==
    LET entry == Get(gaz, field, <<>>)
        vals == Get(entry, "values", <<>>)
        vals_r == Get(entry, "values_roman_norm", <<>>)
    IN TokenFallback(allow_token, Range(q_toks), vals, max_per_field,
           PhrasePass(q_used, q_roman, mode, vals, vals_r, max_per_field, 1,
                      [got |-> <<>>, score |-> 0]))

AllowToken(field) == field # "contributors_norm"

(* the confidence a field needs for its filter *)
MinConfidence(field) ==
    CASE field = "locations_norm" -> 0
      [] field = "contributors_norm" -> 2
      [] field = "categories_norm" -> 4
      [] field = "tags_norm" -> 4

(* lines 113-157: matches, confidence and the filter, from what the four   *)
(* scans gave                                                              *)
decide_filters(scanned) ==
    LET found == {f \in Range(Fields) : scanned[f].got # <<>>}
        matches == [f \in found |-> scanned[f].got]
        conf == [f \in found |-> scanned[f].score]
        filters == Flatten([i \in DOMAIN Fields |->
                       IF Fields[i] \in found /\ conf[Fields[i]] >= MinConfidence(Fields[i])
                       THEN _build_in_filter(Fields[i], matches[Fields[i]])
                       ELSE <<>>])
        auto_filter == IF filters # <<>>
                       THEN Just(Join(filters, <<" ", "&", "&", " ">>))
                       ELSE Nothing
    IN [matches |-> matches, confidence |-> conf, filter_by_auto |-> auto_filter]

detect_entities(query_used, mode, gaz, max_per_field) ==
    LET q_used == _norm_ws(query_used)
        q_toks == tokenize_loose(q_used)
        q_roman == IF mode # "dev" THEN roman_norm(q_used) ELSE <<>>
    IN decide_filters([f \in Range(Fields) |->
           scan(f, AllowToken(f), q_used, q_roman, q_toks, mode, gaz, max_per_field)])

-----------------------------------------------------------------------------
(* From the request to the lexical call (search, typesense_search) *)

LEXICAL_TOPK == 80

(* the client's filter and the detected one *)
filter_final_auto_only(client, auto) ==
    IF Truthy(auto) THEN auto ELSE client
filter_final(client, auto) ==
    IF Truthy(auto)
    THEN IF Truthy(client)
         THEN Just(<<"(">> \o client[1] \o <<")", " ", "&", "&", " ", "(">> \o auto[1] \o <<")">>)
         ELSE auto
    ELSE client

(* the parameters typesense_search sends *)
typesense_params(query_used, mode, filter) ==
    LET query_by == IF mode = "dev"
                    THEN "title_hi,summary_hi,content_hi"
                    ELSE "title_roman_norm,summary_roman_norm,content_roman_norm"
        params == [q |-> query_used, query_by |-> query_by,
                   query_by_weights |-> "6,3,1", per_page |-> LEXICAL_TOPK,
                   page |-> 1, num_typos |-> 1]
    IN IF Truthy(filter) THEN Put(params, "filter_by", filter[1]) ELSE params

(* lines 339-346: the lexical call of search for a canonical form and the  *)
(* entities detected in it                                                 *)
lexical_call(canon, entity, client_filter) ==
    LET final == filter_final(client_filter, entity.filter_by_auto)
    IN [status |-> 200, canon |-> canon, entity |-> entity,
        filter_by_final |-> final,
        params |-> typesense_params(canon.q, canon.mode, final)]

(* a gazetteer as 20_build_gazetteer.py writes it: the values of a field   *)
(* longest first, each with its roman_norm                                 *)
GazetteerOf(vals) ==
    [f \in DOMAIN vals |->
        [values |-> vals[f],
         values_roman_norm |-> [i \in DOMAIN vals[f] |-> roman_norm(vals[f][i])]]]

NEW_DELHI == <<"n", "e", "w", " ", "d", "e", "l", "h", "i">>
ASHA_DEVI == <<"a", "s", "h", "a", " ", "d", "e", "v", "i">>
RAM_DAS == <<"r", "a", "m", " ", "d", "a", "s">>
BIHAR == <<"b", "i", "h", "a", "r">>
PATNA == <<"p", "a", "t", "n", "a">>
HEALTH == <<"h", "e", "a", "l", "t", "h">>
ASHA == <<"a", "s", "h", "a">>
HEALTH_CAMP == HEALTH \o <<" ", "c", "a", "m", "p">>
HEALTH_NEWS == HEALTH \o <<" ", "n", "e", "w", "s">>
HEALTH_TIPS == HEALTH \o <<" ", "t", "i", "p", "s">>

Gazetteers ==
    {<<>>,
     GazetteerOf([locations_norm |-> <<NEW_DELHI, BIHAR, PATNA>>,
                  contributors_norm |-> <<ASHA_DEVI, RAM_DAS>>,
                  categories_norm |-> <<HEALTH>>,
                  tags_norm |-> <<HEALTH_CAMP, HEALTH_NEWS, HEALTH_TIPS, HEALTH, ASHA>>])}

ClientFilters == {Nothing, Just(<<>>), Just(<<"l", "a", "n", "g", ":", "=", "h", "i">>)}

RouteFragments ==
    {BIHAR, <<"P", "a", "t", "n", "a">>, <<"d", "e", "l", "h", "i">>, RAM_DAS, ASHA_DEVI,
     HEALTH, ASHA, <<" ">>, <<"KA">>}

RouteQueries ==
    UNION {{Flatten(ps) : ps \in [1..n -> RouteFragments]} : n \in 0..MaxPieces}

InitRoute ==
    /\ ServerInit
    /\ ChunkIdle
    /\ phase = "input"
    /\ lex_hits = <<>>
    /\ sem_art = <<>>
    /\ sem_chk = <<>>
    /\ candidates = <<>>
    /\ q_tokens = <<>>
    /\ ranked = <<>>
    /\ raw \in RouteQueries
    /\ filter_by \in ClientFilters
    /\ gazetteer \in Gazetteers
    /\ result = <<>>

(* search up to its lexical call *)
Route ==
    /\ phase = "input"
    /\ IF raw = <<>> \/ Strip(raw) = <<>>
       THEN result' = [status |-> 400, detail |-> "Empty query"]
       ELSE \E canon \in {canonicalize_query_for_search(raw)} :
            \E entity \in {detect_entities(canon.q, canon.mode, gazetteer,
                                            MAX_PER_FIELD)} :
                result' = lexical_call(canon, entity, filter_by)
    /\ phase' = "routed"
    /\ UNCHANGED <<raw, filter_by, gazetteer>>
    /\ UNCHANGED <<serverVars, chunkVars, lex_hits, sem_art, sem_chk, candidates,
                   q_tokens, ranked>>

NextRoute == Route

SpecRoute == InitRoute /\ [][NextRoute]_vars

(* the filter_by parameter of the lexical call, None when it is not sent *)
SentFilter ==
    IF "filter_by" \in DOMAIN result.params
    THEN Just(result.params.filter_by)
    ELSE Nothing

(* the fields of the routed query that have a filter of their own *)
FilteredFields ==
    {f \in DOMAIN result.entity.matches :
        \/ f = "locations_norm"
        \/ f = "contributors_norm" /\ result.entity.confidence[f] >= 2
        \/ f \in {"categories_norm", "tags_norm"} /\ result.entity.confidence[f] >= 4}

(* locations_norm:=[BTICK a BTICK,BTICK b BTICK] for the matched locations *)
LocationsIn ==
    LET m == result.entity.matches.locations_norm
    IN <<"l", "o", "c", "a", "t", "i", "o", "n", "s", "_", "n", "o", "r", "m", ":", "=", "[">>
           \o Join([i \in DOMAIN m |-> <<"BTICK">> \o m[i] \o <<"BTICK">>], <<",">>)
           \o <<"]">>

-----------------------------------------------------------------------------
(* Chunker (scripts/10_chunk_articles.py) *)

(* The tokenizer: a token is a word, a maximal run of characters that are  *)
(* not whitespace; decoding puts one space between the words.              *)
encode(text) == Split(text, Whitespace)
decode(ids) == Join(ids, <<" ">>)
count_tokens(text) == Len(encode(text))

(* [p.strip() for p in parts if p.strip()] *)
NonBlank(parts) ==
    SelectSeq([i \in DOMAIN parts |-> Strip(parts[i])], LAMBDA p : p # <<>>)

Seps == <<"DANDA", "?", "!", "NL", ";", ":">>
SentenceEnd == {"DANDA", "?", "!"}

(* lines 42-49: one part at one separator, segs being its segments *)
split_segs(part, sep, segs) ==
    IF Len(segs) <= 1 THEN <<part>>
    ELSE IF sep \in SentenceEnd
         THEN [i \in DOMAIN segs |-> Append(segs[i], sep)]
         ELSE segs

(* lines 39-50: the parts after the separators from the k-th on *)
RECURSIVE split_by(_, _)
split_by(parts, k) ==
    IF k > Len(Seps) THEN parts
    ELSE split_by(Flatten([i \in DOMAIN parts |->
                      split_segs(parts[i], Seps[k],
                                 NonBlank(Split(parts[i], {Seps[k]})))]),
                  k + 1)

split_long_text_sentenceish(text) ==
    IF Strip(text) = <<>> THEN <<>>
    ELSE NonBlank(split_by(<<Strip(text)>>, 1))

(* lines 59-67: with a step of 0 or less the window index never passes the *)
(* end of ids and the loop does not end                                    *)
token_window_hangs(text, hard_max_tokens, overlap_tokens) ==
    /\ Len(encode(text)) > hard_max_tokens
    /\ hard_max_tokens - Max(1, overlap_tokens) <= 0

(* lines 61-67 for a step above 0: the windows at 0, step, 2 step, ... *)
windows(ids, width, step) ==
    SelectSeq([k \in 1..((Len(ids) + step - 1) \div step) |->
                  Strip(decode(SubSeq(ids, (k - 1) * step + 1,
                                      Min((k - 1) * step + width, Len(ids)))))],
              LAMBDA txt : txt # <<>>)

(* token_window_split with windows of hard_max_tokens + 1 tokens *)
token_window_split_wide(text, hard_max_tokens, overlap_tokens) ==
    IF Len(encode(text)) <= hard_max_tokens
    THEN IF Strip(text) # <<>> THEN <<Strip(text)>> ELSE <<>>
    ELSE IF hard_max_tokens - Max(1, overlap_tokens) <= 0 THEN <<>>
    ELSE windows(encode(text), hard_max_tokens + 1,
                 hard_max_tokens - Max(1, overlap_tokens))

(* lines 54-68; where token_window_hangs holds nothing is returned *)
token_window_split(text, hard_max_tokens, overlap_tokens) ==
    IF Len(encode(text)) <= hard_max_tokens
    THEN IF Strip(text) # <<>> THEN <<Strip(text)>> ELSE <<>>
    ELSE IF hard_max_tokens - Max(1, overlap_tokens) <= 0 THEN <<>>
    ELSE windows(encode(text), hard_max_tokens,
                 hard_max_tokens - Max(1, overlap_tokens))

(* lines 89-96; st holds chunks, current and current_tokens *)
flush(st) ==
    [chunks |-> IF st.current # <<>> /\ Strip(Join(st.current, <<"NL", "NL">>)) # <<>>
                THEN Append(st.chunks, Strip(Join(st.current, <<"NL", "NL">>)))
                ELSE st.chunks,
     current |-> <<>>,
     current_tokens |-> 0]

(* lines 104-106 *)
parts_of(para) ==
    IF split_long_text_sentenceish(para) = <<>> THEN <<para>>
    ELSE split_long_text_sentenceish(para)

(* lines 107-113: the chunks of the parts of a paragraph over max_tokens *)
part_chunks(parts, max_tokens, overlap_tokens, hard_max_tokens) ==
    Flatten([i \in DOMAIN parts |->
        IF count_tokens(parts[i]) <= max_tokens
        THEN IF Strip(parts[i]) # <<>> THEN <<Strip(parts[i])>> ELSE <<>>
        ELSE token_window_split(parts[i], hard_max_tokens, overlap_tokens)])

(* lines 98-123: one paragraph of ptoks tokens *)
add_paragraph(st, para, ptoks, max_tokens, overlap_tokens, hard_max_tokens) ==
    IF ptoks > max_tokens
    THEN [chunks |-> flush(st).chunks \o
                         part_chunks(parts_of(para), max_tokens, overlap_tokens,
                                     hard_max_tokens),
          current |-> <<>>,
          current_tokens |-> 0]
    ELSE IF st.current_tokens + ptoks <= max_tokens
         THEN [chunks |-> st.chunks,
               current |-> Append(st.current, para),
               current_tokens |-> st.current_tokens + ptoks]
         ELSE [chunks |-> flush(st).chunks,
               current |-> <<para>>,
               current_tokens |-> ptoks]

(* lines 85-125: the chunks before the hard cap, from the i-th paragraph on *)
RECURSIVE assemble(_, _, _, _, _, _)
assemble(paras, max_tokens, overlap_tokens, hard_max_tokens, i, st) ==
    IF i > Len(paras) THEN flush(st).chunks
    ELSE assemble(paras, max_tokens, overlap_tokens, hard_max_tokens, i + 1,
             add_paragraph(st, paras[i], count_tokens(paras[i]), max_tokens,
                           overlap_tokens, hard_max_tokens))

(* lines 127-137: the post-pass over the assembled chunks cs *)
hard_cap(cs, overlap_tokens, hard_max_tokens) ==
    Flatten([i \in DOMAIN cs |->
        IF Strip(cs[i]) = <<>> THEN <<>>
        ELSE IF count_tokens(Strip(cs[i])) <= hard_max_tokens THEN <<Strip(cs[i])>>
        ELSE token_window_split(Strip(cs[i]), hard_max_tokens, overlap_tokens)])

(* lines 71-139 *)
chunk_paragraphs(paras, max_tokens, overlap_tokens, hard_max_tokens) ==
    SelectSeq(hard_cap(assemble(paras, max_tokens, overlap_tokens, hard_max_tokens, 1,
                                [chunks |-> <<>>, current |-> <<>>,
                                 current_tokens |-> 0]),
                       overlap_tokens, hard_max_tokens),
              LAMBDA c : Strip(c) # <<>>)

(* chunk_paragraphs reaches a token_window_split that does not end: for a  *)
(* part of a paragraph over max_tokens (line 113) or in the post-pass      *)
(* (line 137)                                                              *)
chunk_hangs(paras, max_tokens, overlap_tokens, hard_max_tokens) ==
    \/ \E i \in DOMAIN paras :
          /\ count_tokens(paras[i]) > max_tokens
          /\ \E p \in Range(parts_of(paras[i])) :
                /\ count_tokens(p) > max_tokens
                /\ token_window_hangs(p, hard_max_tokens, overlap_tokens)
    \/ \E c \in Range(assemble(paras, max_tokens, overlap_tokens, hard_max_tokens, 1,
                               [chunks |-> <<>>, current |-> <<>>,
                                current_tokens |-> 0])) :
          /\ count_tokens(Strip(c)) > hard_max_tokens
          /\ token_window_hangs(Strip(c), hard_max_tokens, overlap_tokens)

MPNET_MAX_TOKENS == 512

(* lines 149-152 *)
args_rejected(args) ==
    \/ args.hard_max_tokens > MPNET_MAX_TOKENS
    \/ args.max_tokens > args.hard_max_tokens

(* lines 195-211: the rows of an article's chunks *)
chunk_rows(cs) ==
    [i \in DOMAIN cs |->
        [chunk_index |-> i - 1, chunk_text |-> cs[i], chunk_tokens |-> count_tokens(cs[i])]]

(* lines 223-225 *)
hard_cap_failed(rows, args) ==
    rows # <<>> /\ \E i \in DOMAIN rows : rows[i].chunk_tokens > args.hard_max_tokens

(* lines 23-26: text.split("\n\n") takes the pairs of newlines from the    *)
(* left, so in a run of newlines the first, third, ... start a pair; the   *)
(* pieces are stripped and the blank ones dropped                          *)
split_into_paragraphs(text) ==
    LET t == IF is_nullish(text) THEN <<>> ELSE text
        starts == {i \in 1..(Len(t) - 1) :
                      /\ t[i] = "NL"
                      /\ t[i + 1] = "NL"
                      /\ RunBack(t, i, {"NL"}) % 2 = 1}
        taken == starts \cup {i + 1 : i \in starts}
        kept == (1..Len(t)) \ taken
    IN NonBlank(Flatten([i \in DOMAIN t |->
           IF i \in kept /\ (i - 1) \notin kept
           THEN <<SubSeq(t, i, SetMin({j \in i..Len(t) : (j + 1) \notin kept}))>>
           ELSE <<>>]))

(* The chunker on its own: the text of an article is made of at most       *)
(* MaxWords words, joined by a space, a newline or an empty line; the      *)
(* token budgets go up to MaxTokens.                                       *)

MaxWords == 3
MaxTokens == 3

ChunkWords == {<<"a">>, <<"b", ";", "c">>, <<"d", ":", "e", "DANDA">>}
Joiners == {<<" ">>, <<"NL">>, <<"NL", "NL">>}
Overlaps == {0, 2}

BaseTexts ==
    UNION {{Flatten([i \in 1..(2 * n - 1) |->
                        IF i % 2 = 1 THEN ws[(i + 1) \div 2] ELSE js[i \div 2]]) :
               ws \in [1..n -> ChunkWords], js \in [1..(n - 1) -> Joiners]} :
           n \in 1..MaxWords}

InitChunk ==
    /\ ServerInit
    /\ QueryIdle
    /\ phase = "input"
    /\ lex_hits = <<>>
    /\ sem_art = <<>>
    /\ sem_chk = <<>>
    /\ candidates = <<>>
    /\ q_tokens = <<>>
    /\ ranked = <<>>
    /\ paragraphs \in {split_into_paragraphs(t) : t \in BaseTexts}
    /\ chunk_args \in [max_tokens : 1..MaxTokens, overlap_tokens : Overlaps,
                       hard_max_tokens : 1..MaxTokens]
    /\ chunks = <<>>

(* main refuses the arguments *)
ChunkReject ==
    /\ phase = "input"
    /\ args_rejected(chunk_args)
    /\ phase' = "rejected"
    /\ UNCHANGED <<serverVars, queryVars, chunkVars, lex_hits, sem_art, sem_chk,
                   candidates, q_tokens, ranked>>

(* chunk_paragraphs does not return *)
ChunkHang ==
    /\ phase = "input"
    /\ ~args_rejected(chunk_args)
    /\ chunk_hangs(paragraphs, chunk_args.max_tokens, chunk_args.overlap_tokens,
                   chunk_args.hard_max_tokens)
    /\ phase' = "hung"
    /\ UNCHANGED <<serverVars, queryVars, chunkVars, lex_hits, sem_art, sem_chk,
                   candidates, q_tokens, ranked>>

(* main chunks the article and checks the hard cap *)
ChunkDone ==
    /\ phase = "input"
    /\ ~args_rejected(chunk_args)
    /\ ~chunk_hangs(paragraphs, chunk_args.max_tokens, chunk_args.overlap_tokens,
                    chunk_args.hard_max_tokens)
    /\ chunks' = chunk_rows(chunk_paragraphs(paragraphs, chunk_args.max_tokens,
                                             chunk_args.overlap_tokens,
                                             chunk_args.hard_max_tokens))
    /\ phase' = IF hard_cap_failed(chunks', chunk_args) THEN "failed" ELSE "chunked"
    /\ UNCHANGED <<paragraphs, chunk_args>>
    /\ UNCHANGED <<serverVars, queryVars, lex_hits, sem_art, sem_chk, candidates,
                   q_tokens, ranked>>

NextChunk == ChunkReject \/ ChunkHang \/ ChunkDone

SpecChunk == InitChunk /\ [][NextChunk]_vars

RECURSIVE Embeds(_, _, _, _)
Embeds(cs, ds, i, j) ==
    IF i > Len(cs) THEN TRUE
    ELSE IF j > Len(ds) THEN FALSE
    ELSE IF cs[i] = ds[j] THEN Embeds(cs, ds, i + 1, j + 1)
    ELSE Embeds(cs, ds, i, j + 1)

\* C20: the chunker loses no content: every character of the paragraphs
\* that is not whitespace, the separators ; and : of a paragraph over
\* max_tokens included, is in the chunks put one after the other, in the
\* order of the input.
NoContentLost ==
    phase = "chunked" =>
        \E cs \in {Remove(Flatten(paragraphs), Whitespace)} :
        \E ds \in {Remove(Flatten([i \in DOMAIN chunks |-> chunks[i].chunk_text]),
                          Whitespace)} :
            Embeds(cs, ds, 1, 1)

-----------------------------------------------------------------------------
(* The maxima of the merger (SpecMerge) *)

LexHitsOf(a) == {i \in DOMAIN lex_hits : lex_hits[i].article_id = a}
SemArtHitsOf(a) == {i \in DOMAIN sem_art : sem_art[i][1] = a}
SemChkHitsOf(a) == {i \in DOMAIN sem_chk : sem_chk[i][2] = a}

\* C21: each merged candidate's lexical_score, sem_article and sem_chunk is
\* the maximum score of that article's hits in the respective fan-out, and an
\* article with at least one chunk hit has as best_chunk_id the id of a chunk
\* hit attaining that maximum, also when all its chunk scores are zero or
\* negative.
MergerTakesMaxima ==
    phase = "merged" =>
        \A n \in DOMAIN candidates :
            \E a \in {candidates[n].article_id} :
                /\ LexHitsOf(a) # {} =>
                      candidates[n].lexical_score =
                          SetMax({lex_hits[i].lexical_score : i \in LexHitsOf(a)})
                /\ SemArtHitsOf(a) # {} =>
                      candidates[n].sem_article =
                          SetMax({sem_art[i][2] : i \in SemArtHitsOf(a)})
                /\ SemChkHitsOf(a) # {} =>
                      /\ candidates[n].sem_chunk =
                             SetMax({sem_chk[i][3] : i \in SemChkHitsOf(a)})
                      /\ \E i \in SemChkHitsOf(a) :
                            /\ sem_chk[i][1] = candidates[n].best_chunk_id
                            /\ sem_chk[i][3] = candidates[n].sem_chunk

\* C22: each merged candidate carries src_lexical, src_sem_article and
\* src_sem_chunk, each true exactly when the article appeared in that fan-out,
\* and the ranker records these values in the candidate's feature vector.
SourceFlagsRecorded ==
    /\ phase \in {"merged", "ranked"} =>
          \A n \in DOMAIN candidates :
              \E a \in {candidates[n].article_id} :
                  /\ Get(candidates[n], "src_lexical", FALSE) = (LexHitsOf(a) # {})
                  /\ Get(candidates[n], "src_sem_article", FALSE) = (SemArtHitsOf(a) # {})
                  /\ Get(candidates[n], "src_sem_chunk", FALSE) = (SemChkHitsOf(a) # {})
    /\ phase = "ranked" =>
          \A n \in DOMAIN ranked :
              \E a \in {ranked[n].article_id} :
                  /\ ranked[n].features.src_lexical = (LexHitsOf(a) # {})
                  /\ ranked[n].features.src_sem_article = (SemArtHitsOf(a) # {})
                  /\ ranked[n].features.src_sem_chunk = (SemChkHitsOf(a) # {})

-----------------------------------------------------------------------------
(* Further properties of the ranker (SpecRank) *)

Perms(n) == {p \in [1..n -> 1..n] : \A i, j \in 1..n : p[i] = p[j] => i = j}

(* the fields of ranked entry r that came from the input candidate *)
CandidatePart(r) == [k \in DOMAIN r \ {"score", "features", "explanation", "rank"} |-> r[k]]

\* C23: the ranker's order is stable and deterministic.  The ranked list is
\* the input list rearranged so that scores descend and candidates with equal
\* scores keep the relative order they had in the input; ranks are the
\* positions 1..n of that one arrangement.
TieBreakStable ==
    phase = "ranked" =>
        /\ Len(ranked) = Len(candidates)
        /\ \E p \in Perms(Len(candidates)) :
              /\ \A i \in DOMAIN ranked :
                    /\ CandidatePart(ranked[i]) = candidates[p[i]]
                    /\ ranked[i].rank = i
              /\ \A i, j \in DOMAIN ranked :
                    i < j =>
                        \/ ranked[i].score > ranked[j].score
                        \/ ranked[i].score = ranked[j].score /\ p[i] < p[j]

(* two candidates that differ tie on score and leave in their input order *)
TieBreakStableWitness ==
    /\ phase = "ranked"
    /\ Len(ranked) = 2
    /\ ranked[1].score = ranked[2].score
    /\ candidates[1] # candidates[2]
    /\ CandidatePart(ranked[1]) = candidates[1]
    /\ CandidatePart(ranked[2]) = candidates[2]

(* the raw signals and the features that hold their normalised values *)
Signals ==
    {<<"lexical_score", "lex_norm">>, <<"sem_article", "sem_article_norm">>,
     <<"sem_chunk", "sem_chunk_norm">>}

(* v is normalised to norm in a list whose least value is lo and whose     *)
(* greatest is hi (norm in units of 1/SCALE)                               *)
NormalisedAs(v, norm, lo, hi) ==
    /\ 0 <= norm
    /\ norm <= SCALE
    /\ hi - lo < EPS => norm = 0
    /\ hi - lo >= EPS =>
          /\ v = lo => norm = 0
          /\ v = hi => norm = SCALE

\* C24: min-max normalisation of each raw signal over the candidate list
\* gives values in [0, 1], 0 for the least value and 1 for the greatest; when
\* the greatest and the least differ by less than 1e-9 (a single candidate
\* included) every normalised value is 0.
MinMaxNormalised ==
    phase = "ranked" =>
        \A sig \in Signals :
            \A i \in DOMAIN ranked :
                NormalisedAs(ranked[i][sig[1]], ranked[i].features[sig[2]],
                             SetMin({candidates[j][sig[1]] : j \in DOMAIN candidates}),
                             SetMax({candidates[j][sig[1]] : j \in DOMAIN candidates}))

(* two candidates whose lexical scores differ by less than 1e-9 and whose  *)
(* chunk scores differ by more                                             *)
MinMaxNormalisedWitness ==
    /\ phase = "ranked"
    /\ Len(ranked) = 2
    /\ ranked[1].lexical_score # ranked[2].lexical_score
    /\ ranked[1].features.lex_norm = 0
    /\ ranked[2].features.lex_norm = 0
    /\ ranked[1].features.sem_chunk_norm = SCALE
    /\ ranked[2].features.sem_chunk_norm = 0

(* ranked entries r and s have equal raw signals and equal metadata overlaps *)
SameSignals(r, s) ==
    /\ r.lexical_score = s.lexical_score
    /\ r.sem_article = s.sem_article
    /\ r.sem_chunk = s.sem_chunk
    /\ r.features.tag_overlap_count = s.features.tag_overlap_count
    /\ r.features.cat_overlap_count = s.features.cat_overlap_count
    /\ r.features.loc_overlap_count = s.features.loc_overlap_count
    /\ r.features.contrib_overlap_count = s.features.contrib_overlap_count

(* the recency of an article published at published_ts, in units of        *)
(* 1/SCALE: 1 - age/1095 days, 0 from 1095 days on or without a date       *)
RefRecency(published_ts) ==
    IF published_ts <= 0 \/ NOW_TS - published_ts >= DAY * RECENCY_DAYS THEN 0
    ELSE IF published_ts >= NOW_TS THEN SCALE
    ELSE SCALE - ((NOW_TS - published_ts) \div RecUnit)

\* C25: of two candidates with equal raw signals and equal metadata overlaps,
\* the one with the strictly greater recency (published less than 1095 days
\* ago and more recently than the other, or the other being undated or 1095
\* days old or older) is ranked before the other.
RecencyBreaksTies ==
    phase = "ranked" =>
        \A i, j \in DOMAIN ranked :
            /\ SameSignals(ranked[i], ranked[j])
            /\ RefRecency(ranked[i].published_ts) > RefRecency(ranked[j].published_ts)
            => /\ i < j
               /\ ranked[i].rank < ranked[j].rank

(* the article of 30 days ago entered after the one of 1200 days ago, with *)
(* equal signals, and is ranked first                                      *)
RecencyBreaksTiesWitness ==
    /\ phase = "ranked"
    /\ Len(ranked) = 2
    /\ SameSignals(ranked[1], ranked[2])
    /\ RefRecency(ranked[1].published_ts) > RefRecency(ranked[2].published_ts)
    /\ RefRecency(ranked[2].published_ts) = 0
    /\ RefRecency(ranked[1].published_ts) < SCALE
    /\ CandidatePart(ranked[1]) = candidates[2]

-----------------------------------------------------------------------------
(* Further properties of the entity detection (SpecRoute) *)

(* the values of field f that are phrases of the canonical query: the      *)
(* value, or in roman mode its roman form, is a substring of the query     *)
PhraseValues(f) ==
    {i \in DOMAIN Get(gazetteer, f, [values |-> <<>>]).values :
        \E v \in {_norm_ws(gazetteer[f].values[i])} :
            /\ v # <<>>
            /\ \/ Contains(_norm_ws(result.canon.q), v)
               \/ /\ result.canon.mode # "dev"
                  /\ gazetteer[f].values_roman_norm[i] # <<>>
                  /\ Contains(roman_norm(_norm_ws(result.canon.q)),
                              gazetteer[f].values_roman_norm[i])}

(* field f has a filter of its own in the auto filter *)
HasFilter(f) ==
    /\ Truthy(result.entity.filter_by_auto)
    /\ Contains(result.entity.filter_by_auto[1], FieldChars(f) \o <<":", "=", "[">>)

\* C26: a hard filter on categories_norm or tags_norm is emitted only when
\* that field's confidence is at least 4, and a confidence of 4 or more is
\* reached only with several phrase hits in that field, never with a single
\* phrase hit plus token hits nor with token hits alone.
CategoryFilterNeedsPhrases ==
    (phase = "routed" /\ result.status = 200) =>
        \A f \in {"categories_norm", "tags_norm"} :
            /\ HasFilter(f) =>
                  /\ f \in DOMAIN result.entity.confidence
                  /\ result.entity.confidence[f] >= 4
            /\ (f \in DOMAIN result.entity.confidence /\ result.entity.confidence[f] >= 4) =>
                  Cardinality(PhraseValues(f)) >= 2

(* the values of each gazetteer field are pairwise distinct *)
GazetteerDistinct ==
    \A f \in DOMAIN gazetteer :
        \A i, j \in DOMAIN gazetteer[f].values :
            gazetteer[f].values[i] = gazetteer[f].values[j] => i = j

(* field f has a value that is no phrase of the query but shares a token   *)
(* with it                                                                 *)
TokenOnlyValues(f) ==
    {i \in DOMAIN gazetteer[f].values :
        /\ i \notin PhraseValues(f)
        /\ Range(tokenize_loose(gazetteer[f].values[i]))
               \cap Range(tokenize_loose(_norm_ws(result.canon.q))) # {}}

\* C27: for every query, mode and gazetteer with distinct values, each field
\* reported in matches has at least one and at most 3 matched values, and
\* these are pairwise distinct values of that field.
MatchesCapped ==
    (phase = "routed" /\ result.status = 200 /\ GazetteerDistinct) =>
        \A f \in DOMAIN result.entity.matches :
            \E m \in {result.entity.matches[f]} :
                /\ Len(m) >= 1
                /\ Len(m) <= MAX_PER_FIELD
                /\ \A i, j \in DOMAIN m : m[i] = m[j] => i = j
                /\ Range(m) \subseteq Range(gazetteer[f].values)

(* a tag is matched as a phrase and three more share a token with the      *)
(* query: the cap cuts the token pass short                                *)
MatchesCappedWitness ==
    /\ phase = "routed"
    /\ result.status = 200
    /\ "tags_norm" \in DOMAIN result.entity.matches
    /\ Len(result.entity.matches.tags_norm) = MAX_PER_FIELD
    /\ Cardinality(PhraseValues("tags_norm")) = 1
    /\ Cardinality(TokenOnlyValues("tags_norm")) = 3

\* C28: token_window_split terminates for every text and every combination
\* of parameters main accepts, overlap_tokens at or above hard_max_tokens
\* included: the start index of the window strictly increases, so the
\* chunker never stays in the window loop.
WindowSplitTerminates == phase # "hung"

(* the i-th value of field f is made of lowercase Latin letters and spaces *)
PlainValue(f, i) ==
    \A k \in DOMAIN gazetteer[f].values[i] :
        gazetteer[f].values[i][k] \in
            {"a", "b", "c", "d", "e", "f", "g", "h", "i", "j", "k", "l", "m", "n",
             "o", "p", "q", "r", "s", "t", "u", "v", "w", "x", "y", "z", " "}

\* C30: in roman mode, a gazetteer value of lowercase Latin letters and
\* spaces (one with a v or a doubled vowel included) that the raw query
\* contains verbatim, with fewer than 3 earlier values of its field matched,
\* is reported by detect_entities on the canonical query as a phrase match.
VerbatimValueMatched ==
    (phase = "routed" /\ result.status = 200 /\ result.canon.mode = "roman") =>
        \A f \in DOMAIN gazetteer :
            \A i \in DOMAIN gazetteer[f].values :
                (/\ PlainValue(f, i)
                 /\ Contains(raw, gazetteer[f].values[i])
                 /\ Cardinality({j \in PhraseValues(f) : j < i}) < MAX_PER_FIELD)
                => /\ i \in PhraseValues(f)
                   /\ f \in DOMAIN result.entity.matches
                   /\ gazetteer[f].values[i] \in Range(result.entity.matches[f])

====
